---- MODULE Spec2Model ----
(***************************************************************************)
(* ETH market-structure notifier.                                          *)
(*                                                                         *)
(*   alert.js      one invocation ("tick") of the notifier: fetch the      *)
(*                 snapshot, detect plays, score and gate them, apply the  *)
(*                 global mute and the per-key TTL against the cache file, *)
(*                 deliver the survivors, write the cache.                 *)
(*   edge-data.js  the snapshot builder: ZigZag pivots, primary support /  *)
(*                 resistance lines.                                       *)
(*   part_001      the older builder: fractal swings.                      *)
(*                                                                         *)
(* Times are in minutes, prices of the snapshot in cents (the builder      *)
(* emits two decimals), weights in tenths.                                 *)
(***************************************************************************)
EXTENDS Integers, Sequences, FiniteSets, TLC

VARIABLES
  cacheFile,   \* /tmp/alert_cache.json: [ts, plays], plays a map key -> time
  clock,       \* Date.now(), minutes
  ticks,       \* invocations started so far
  inv,         \* the running invocations: id -> the locals of main()
  sentLog,     \* history: the deliveries to Telegram, oldest first
  outcome,     \* history: how the last finished invocation ended
  scope,       \* which inputs the invocations draw ("lifecycle" | "gate"),
               \*   or "overlap": invocations may run at the same time
  fn,          \* a call of one function on its own: the function
  args,        \*   its arguments
  ret,         \*   its result
  done         \*   whether it has returned

vars == <<cacheFile, clock, ticks, inv, sentLog, outcome, scope, fn, args, ret, done>>
tickVars == <<cacheFile, clock, ticks, inv, sentLog, outcome, scope>>
callVars == <<fn, args, ret, done>>

(***************************************************************************)
(* Bounds of the model.                                                    *)
(***************************************************************************)
MaxTicks == 3      \* invocations per behaviour
MaxPlays == 2      \* plays the detector returns in one invocation

(***************************************************************************)
(* Arithmetic helpers.                                                     *)
(***************************************************************************)
Max(a, b) == IF a >= b THEN a ELSE b
Min(a, b) == IF a <= b THEN a ELSE b
Abs(a) == IF a >= 0 THEN a ELSE -a

\* Math.round of c/unit for c >= 0: to the nearest integer, halves up.
MathRound(c, unit) == (2 * c + unit) \div (2 * unit)

(***************************************************************************)
(* alert.js, constants.                                                    *)
(***************************************************************************)
TTL == 30          \* per-play TTL, minutes
MUTE == 60         \* global mute window, minutes
ATIER == 8         \* A-tier quality

MIN_GATE(id) ==
  CASE id = 1 -> 6 [] id = 2 -> 6 [] id = 3 -> 5 [] id = 4 -> 5 [] id = 5 -> 6
    [] id = 6 -> 5 [] id = 7 -> 5 [] id = 8 -> 5 [] id = 9 -> 5 [] OTHER -> 5

(***************************************************************************)
(* The plays evaluateSignals can return, in the order it pushes them.      *)
(***************************************************************************)
KindOrder ==
  << <<1, "LONG">>, <<2, "LONG">>, <<3, "LONG">>, <<3, "SHORT">>,
     <<4, "LONG">>, <<4, "SHORT">>, <<5, "BREAK">>, <<6, "LONG">>,
     <<7, "BREAK">>, <<8, "SHORT">>, <<8, "LONG">>, <<9, "LONG">>,
     <<9, "SHORT">> >>

RECURSIVE SortedSeq(_)
\* The kinds with indices S, in detection order.
SortedSeq(S) ==
  IF S = {} THEN <<>>
  ELSE LET m == CHOOSE x \in S : \A y \in S : x <= y
       IN <<[id |-> KindOrder[m][1], dir |-> KindOrder[m][2]]>> \o SortedSeq(S \ {m})

\* A rule fires at most once per snapshot (#8 fires on one side of the band
\* for a band the builder emits, upper >= lower).
OnePerRule(S) == \A a, b \in S : a # b => KindOrder[a][1] # KindOrder[b][1]

DetectedLists(K) ==
  { SortedSeq(S) : S \in { T \in SUBSET K : Cardinality(T) <= MaxPlays /\ OnePerRule(T) } }

(***************************************************************************)
(* alert.js, regimeAdjustGate (lines 240-279).                             *)
(***************************************************************************)
oppToHTF(p, R) ==
  \/ (R.htf = "up" /\ p.dir = "SHORT")
  \/ (R.htf = "down" /\ p.dir = "LONG")

\* lines 250-251 with a discount for a play that follows a strong trend
gateAdjOf_discounting(p, neckBreak, R) ==
  CASE p.id \in {1, 2, 6, 9} ->
         (IF R.htf = "range" THEN 1 ELSE 0)
         + (IF R.adxStrong THEN (IF oppToHTF(p, R) THEN 2 ELSE -1) ELSE 0)
    [] p.id \in {4, 8} ->
         (IF R.adxStrong /\ R.htf # "range" /\ ~neckBreak THEN 2 ELSE 0)
         + (IF R.ltfExpansion /\ ~R.ltfCompression THEN 1 ELSE 0)
    [] p.id = 3 ->
         (IF R.adxStrong THEN (IF oppToHTF(p, R) THEN 2 ELSE 1) ELSE 0)
    [] OTHER -> 0

gateAdjOf(p, neckBreak, R) ==
  CASE p.id \in {1, 2, 6, 9} ->
         (IF R.htf = "range" THEN 1 ELSE 0) + (IF R.adxStrong /\ oppToHTF(p, R) THEN 2 ELSE 0)
    [] p.id \in {4, 8} ->
         (IF R.adxStrong /\ R.htf # "range" /\ ~neckBreak THEN 2 ELSE 0)
         + (IF R.ltfExpansion /\ ~R.ltfCompression THEN 1 ELSE 0)
    [] p.id = 3 ->
         (IF R.adxStrong THEN (IF oppToHTF(p, R) THEN 2 ELSE 1) ELSE 0)
    [] OTHER -> 0

\* lines 261-266 without the denial: the breakout rules are gated like the rest
denyOf_never(p, R) == FALSE

denyOf(p, R) == p.id \in {5, 7} /\ ~R.ltfCompression

regimeAdjustGate(p, neckBreak, R) ==
  [gateAdj |-> gateAdjOf(p, neckBreak, R), deny |-> denyOf(p, R)]

(***************************************************************************)
(* alert.js, main: the gate loop (lines 578-585).  q is the value          *)
(* computeQualityScore returns for the play on this snapshot.              *)
(***************************************************************************)
gatePlay(p, q, neckBreak, R) ==
  LET adj == regimeAdjustGate(p, neckBreak, R)
      baseGate == MIN_GATE(p.id)
      gate == Max(1, baseGate + adj.gateAdj)
  IN [id |-> p.id, dir |-> p.dir, quality |-> q,
      belowGate |-> IF adj.deny THEN TRUE ELSE q < gate,
      gateInfo |-> [baseGate |-> baseGate, gateAdj |-> adj.gateAdj,
                    finalGate |-> gate, deny |-> adj.deny]]

\* the gate loop as a filter: plays below their gate are dropped from the list
gateLoop_dropping(plays, score, neckBreak, R) ==
  SelectSeq([k \in 1..Len(plays) |-> gatePlay(plays[k], score[k], neckBreak, R)],
            LAMBDA p : ~p.belowGate)

gateLoop(plays, score, neckBreak, R) ==
  [k \in 1..Len(plays) |-> gatePlay(plays[k], score[k], neckBreak, R)]

\* line 636 without its filter: every play is handed on
sendableOf_all(plays) == plays

\* plays.filter(p => !p.belowGate), line 636
sendableOf(plays) == SelectSeq(plays, LAMBDA p : ~p.belowGate)

\* sendable.some(p => p.quality >= 8), line 647
hasATierOf(sendable) == \E k \in 1..Len(sendable) : sendable[k].quality >= ATIER

(***************************************************************************)
(* alert.js, playKey (lines 539-551): the key is a triple here, a string   *)
(* "id:dir:level" in the code.                                             *)
(***************************************************************************)
priceBucket(d) == MathRound(d.price, 5000) * 50

playKey(p, d) ==
  CASE p.id = 1 -> <<1, p.dir, MathRound(d.HH20, 100)>>
    [] p.id = 2 -> <<2, p.dir, MathRound(d.avwapCycle, 100)>>
    [] p.id = 8 -> <<8, p.dir, MathRound(IF p.dir = "LONG" THEN d.vwapLower ELSE d.vwapUpper, 100)>>
    [] OTHER -> <<p.id, p.dir, priceBucket(d)>>

\* cache.plays?.[key] || 0, line 657
lastTsOf(cache, key) == IF key \in DOMAIN cache.plays THEN cache.plays[key] ELSE 0

\* line 650 without the A-tier override
globalMutedOf_noBypass(isDbg, nowTs, cache, hasATier) ==
  ~isDbg /\ (nowTs - cache.ts < MUTE)

\* the mute test of line 650
globalMutedOf(isDbg, nowTs, cache, hasATier) ==
  ~isDbg /\ (nowTs - cache.ts < MUTE) /\ ~hasATier

\* lines 655-660 without the TTL test
freshOf_noTTL(sendable, d, cache, nowTs) == sendable

\* the TTL filter of lines 655-660
freshOf(sendable, d, cache, nowTs) ==
  SelectSeq(sendable, LAMBDA p : ~(nowTs - lastTsOf(cache, playKey(p, d)) < TTL))

\* the cache as written by lines 670-674
RECURSIVE stamp(_, _, _, _)
stamp(plays, fresh, d, nowTs) ==
  IF fresh = <<>> THEN plays
  ELSE LET k == playKey(Head(fresh), d)
           rest == [x \in (DOMAIN plays) \cup {k} |-> IF x = k THEN nowTs ELSE plays[x]]
       IN stamp(rest, Tail(fresh), d, nowTs)

\* the save writing a new object that holds this run's keys only
cacheAfter_thisRunOnly(cache, fresh, d, nowTs) ==
  [ts |-> nowTs, plays |-> stamp(<<>>, fresh, d, nowTs)]

cacheAfter(cache, fresh, d, nowTs) ==
  [ts |-> nowTs, plays |-> stamp(cache.plays, fresh, d, nowTs)]

\* loadCache of a missing or unreadable file, line 554
EmptyCache == [ts |-> 0, plays |-> <<>>]

(***************************************************************************)
(* The snapshots an invocation can fetch.  A snapshot carries what the     *)
(* gate and the de-dup read of it: the regime computeRegime derives from   *)
(* it, neckBreak, the levels playKey rounds, the plays evaluateSignals     *)
(* detects on it and the score computeQualityScore gives each of them.     *)
(***************************************************************************)
Regimes ==
  { r \in [htf : {"up", "down", "range"}, adxStrong : BOOLEAN,
           ltfCompression : BOOLEAN, ltfExpansion : BOOLEAN] :
      ~(r.ltfCompression /\ r.ltfExpansion) }     \* expansion = !compression && ...

\* The regimes and plays the multi-invocation runs draw from.
LifecycleRegimes ==
  { [htf |-> "up", adxStrong |-> FALSE, ltfCompression |-> TRUE, ltfExpansion |-> FALSE],
    [htf |-> "up", adxStrong |-> TRUE, ltfCompression |-> FALSE, ltfExpansion |-> TRUE] }
LifecycleKinds == {4, 7}          \* indices of KindOrder: #3 SHORT, #5 BREAK
LifecycleQuals == {6, 9}
LifecyclePrices == {302000, 303000}   \* 3020.00 and 3030.00: buckets 3000 and 3050
GateQuals == {4, 6, 8}            \* below, among and on top of the final gates (5..8)

Scores(plays, Q) == [1..Len(plays) -> Q]

\* The overlapping runs draw one regime and one price: two non-debug runs
\* on the same market are what the race is about.
OverlapRegimes ==
  { [htf |-> "up", adxStrong |-> FALSE, ltfCompression |-> TRUE, ltfExpansion |-> FALSE] }

RegimesOf(sc) ==
  IF sc = "gate" THEN Regimes ELSE IF sc = "overlap" THEN OverlapRegimes ELSE LifecycleRegimes
NeckBreaksOf(sc) == IF sc = "gate" THEN BOOLEAN ELSE {FALSE}
PricesOf(sc) == IF sc \in {"gate", "overlap"} THEN {302000} ELSE LifecyclePrices
KindsOf(sc) == IF sc = "gate" THEN 1..Len(KindOrder) ELSE LifecycleKinds
QualsOf(sc) == IF sc = "gate" THEN GateQuals ELSE LifecycleQuals

Dash(r, nb, pr, ps, score) ==
  [REGIME |-> r, neckBreak |-> nb, price |-> pr, HH20 |-> 300040,
   avwapCycle |-> 295060, vwapUpper |-> 301550, vwapLower |-> 298450,
   plays |-> ps, score |-> score]

Steps(sc) == IF sc = "gate" THEN {10} ELSE {10, 30}
Debugs(sc) == IF sc \in {"gate", "overlap"} THEN {FALSE} ELSE BOOLEAN

(***************************************************************************)
(* The locals of main().                                                   *)
(***************************************************************************)
NoDash ==
  [REGIME |-> [htf |-> "range", adxStrong |-> FALSE, ltfCompression |-> FALSE,
               ltfExpansion |-> FALSE],
   neckBreak |-> FALSE, price |-> 0, HH20 |-> 0, avwapCycle |-> 0,
   vwapUpper |-> 0, vwapLower |-> 0, plays |-> <<>>, score |-> <<>>]

Idle ==
  [pc |-> "idle", tick |-> 0, isDbg |-> FALSE, dash |-> NoDash, detected |-> <<>>,
   plays |-> <<>>, cache |-> EmptyCache, nowTs |-> 0, reads |-> 0,
   fresh |-> <<>>, sent |-> <<>>,
   overlapped |-> FALSE]     \* history: another invocation ran during this one

Finish(i, how) ==
  /\ outcome' = how
  /\ inv' = [inv EXCEPT ![i] = Idle]

(***************************************************************************)
(* alert.js, main (lines 561-690), one step per action.                    *)
(***************************************************************************)
\* lines 563-575: the scheduler starts an invocation, it fetches the
\* snapshot, computes the regime and runs the detector.
Fetch(i) ==
  /\ inv[i].pc = "idle"
  /\ ticks < (IF scope = "gate" THEN 1 ELSE MaxTicks)
  /\ scope # "overlap" => \A j \in DOMAIN inv : inv[j].pc = "idle"   \* one at a time
  /\ \E dt \in Steps(scope), dbg \in Debugs(scope), r \in RegimesOf(scope),
        nb \in NeckBreaksOf(scope), pr \in PricesOf(scope),
        ps \in DetectedLists(KindsOf(scope)) :
       \E score \in Scores(ps, QualsOf(scope)) :
         /\ clock' = clock + dt
         /\ inv' = [j \in DOMAIN inv |->
                      IF j = i
                      THEN [Idle EXCEPT !.pc = "detected", !.tick = ticks + 1,
                                        !.isDbg = dbg, !.dash = Dash(r, nb, pr, ps, score),
                                        !.detected = ps,
                                        !.overlapped = \E k \in DOMAIN inv : inv[k].pc # "idle"]
                      ELSE IF inv[j].pc # "idle" THEN [inv[j] EXCEPT !.overlapped = TRUE]
                      ELSE inv[j]]
  /\ ticks' = ticks + 1
  /\ outcome' = "running"
  /\ UNCHANGED <<cacheFile, sentLog, scope, fn, args, ret, done>>

\* line 563 throws (safeJson exhausted its retries): the catch block, 680-689.
FetchFail(i) ==
  /\ inv[i].pc = "idle"
  /\ ticks < (IF scope = "gate" THEN 1 ELSE MaxTicks)
  /\ scope # "overlap" => \A j \in DOMAIN inv : inv[j].pc = "idle"
  /\ \E dt \in Steps(scope) : clock' = clock + dt
  /\ ticks' = ticks + 1
  /\ outcome' = "fetchError"
  /\ UNCHANGED <<cacheFile, inv, sentLog, scope, fn, args, ret, done>>

\* lines 578-585
Gate(i) ==
  /\ inv[i].pc = "detected"
  /\ inv' = [inv EXCEPT ![i].pc = "gated",
                        ![i].plays = gateLoop(inv[i].detected, inv[i].dash.score,
                                              inv[i].dash.neckBreak, inv[i].dash.REGIME)]
  /\ UNCHANGED <<cacheFile, clock, ticks, sentLog, outcome, scope, fn, args, ret, done>>

\* lines 630-665
Filter(i) ==
  /\ inv[i].pc = "gated"
  /\ LET plays == inv[i].plays
         sendable == sendableOf(plays)
         cache == cacheFile                       \* loadCache, line 644
         nowTs == clock                           \* Date.now(), line 645
         hasATier == hasATierOf(sendable)
         fresh == freshOf(sendable, inv[i].dash, cache, nowTs)
     IN IF plays = <<>> THEN Finish(i, "noPlays")
        ELSE IF sendable = <<>> THEN Finish(i, "noneSendable")
        ELSE IF globalMutedOf(inv[i].isDbg, nowTs, cache, hasATier)
             THEN Finish(i, "muted")
        ELSE IF fresh = <<>> THEN Finish(i, "allTTL")
        ELSE /\ inv' = [inv EXCEPT ![i].pc = "send", ![i].cache = cache,
                                   ![i].nowTs = nowTs, ![i].reads = 1,
                                   ![i].fresh = fresh]
             /\ UNCHANGED outcome
  /\ UNCHANGED <<cacheFile, clock, ticks, sentLog, scope, fn, args, ret, done>>

\* line 667, one iteration: tg delivers the next fresh play.
SendOk(i) ==
  /\ inv[i].pc = "send"
  /\ Len(inv[i].sent) < Len(inv[i].fresh)
  /\ LET p == inv[i].fresh[Len(inv[i].sent) + 1]
     IN /\ inv' = [inv EXCEPT ![i].sent = Append(@, p)]
        /\ sentLog' = Append(sentLog, [key |-> playKey(p, inv[i].dash), t |-> inv[i].nowTs,
                                       tick |-> inv[i].tick, recorded |-> FALSE,
                                       aTier |-> hasATierOf(sendableOf(inv[i].plays)),
                                       dbg |-> inv[i].isDbg,
                                       overlapped |-> inv[i].overlapped])
  /\ UNCHANGED <<cacheFile, clock, ticks, outcome, scope, fn, args, ret, done>>

\* the catch block saving what was delivered before tg threw
SendFail_saving(i) ==
  /\ inv[i].pc = "send"
  /\ Len(inv[i].sent) < Len(inv[i].fresh)
  /\ cacheFile' = cacheAfter(inv[i].cache, inv[i].sent, inv[i].dash, inv[i].nowTs)
  /\ Finish(i, "sendError")
  /\ UNCHANGED <<clock, ticks, sentLog, scope, fn, args, ret, done>>

\* line 667, one iteration: tg throws; the catch block, 680-689, ends the run.
SendFail(i) ==
  /\ inv[i].pc = "send"
  /\ Len(inv[i].sent) < Len(inv[i].fresh)
  /\ Finish(i, "sendError")
  /\ UNCHANGED <<cacheFile, clock, ticks, sentLog, scope, fn, args, ret, done>>

\* lines 669-676 without the test of line 669: a debug run saves too
Commit_debugSaving(i) ==
  /\ inv[i].pc = "send"
  /\ Len(inv[i].sent) = Len(inv[i].fresh)
  /\ cacheFile' = cacheAfter(inv[i].cache, inv[i].fresh, inv[i].dash, inv[i].nowTs)
  /\ sentLog' = [k \in 1..Len(sentLog) |->
                   IF sentLog[k].tick = inv[i].tick
                   THEN [sentLog[k] EXCEPT !.recorded = TRUE,
                                           !.overlapped = inv[i].overlapped]
                   ELSE sentLog[k]]
  /\ Finish(i, "sent")
  /\ UNCHANGED <<clock, ticks, scope, fn, args, ret, done>>

\* lines 669-678: every fresh play is delivered; the cache is written unless
\* the run is a debug run.
Commit(i) ==
  /\ inv[i].pc = "send"
  /\ Len(inv[i].sent) = Len(inv[i].fresh)
  /\ IF inv[i].isDbg
       THEN UNCHANGED <<cacheFile, sentLog>>
       ELSE /\ cacheFile' = cacheAfter(inv[i].cache, inv[i].fresh, inv[i].dash, inv[i].nowTs)
            /\ sentLog' = [k \in 1..Len(sentLog) |->
                             IF sentLog[k].tick = inv[i].tick
                             THEN [sentLog[k] EXCEPT !.recorded = TRUE,
                                                     !.overlapped = inv[i].overlapped]
                             ELSE sentLog[k]]
  /\ Finish(i, "sent")
  /\ UNCHANGED <<clock, ticks, scope, fn, args, ret, done>>

Invocations == DOMAIN inv

Next ==
  \/ \E i \in Invocations : Fetch(i)
  \/ \E i \in Invocations : FetchFail(i)
  \/ \E i \in Invocations : Gate(i)
  \/ \E i \in Invocations : Filter(i)
  \/ \E i \in Invocations : SendOk(i)
  \/ \E i \in Invocations : SendFail(i)
  \/ \E i \in Invocations : Commit(i)

TickInit(sc) ==
  /\ cacheFile = EmptyCache
  /\ clock = MUTE            \* long after the epoch: an empty cache never mutes
  /\ ticks = 0
  /\ inv = [i \in {1} |-> Idle]
  /\ sentLog = <<>>
  /\ outcome = "none"
  /\ scope = sc
  /\ fn = "none" /\ args = <<>> /\ ret = <<>> /\ done = TRUE

Init == TickInit("lifecycle")
Spec == Init /\ [][Next]_vars

\* One invocation on every snapshot of the wide set.
InitGate == TickInit("gate")
SpecGate == InitGate /\ [][Next]_vars

(***************************************************************************)
(* Properties of the tick.                                                 *)
(***************************************************************************)
Deliveries == 1..Len(sentLog)

\* C1, as stated: after any sequence of ticks no play key is delivered to
\* Telegram twice within the TTL (two deliveries of one key are at least
\* TTL apart).
C1_NoKeyTwiceWithinTTL ==
  \A a, b \in Deliveries :
    (a < b /\ sentLog[a].key = sentLog[b].key) => sentLog[b].t - sentLog[a].t >= TTL

\* C1, amended: a key whose delivery was recorded in the cache (a non-debug
\* tick that delivered its whole batch) is not delivered again by any tick
\* that runs less than TTL later.
C1_RecordedKeyNotRepeated ==
  \A a, b \in Deliveries :
    (a < b /\ sentLog[a].key = sentLog[b].key /\ sentLog[a].recorded)
      => sentLog[b].t - sentLog[a].t >= TTL

\* a recorded key detected again inside the TTL by a tick that does deliver
\* (another key), and left out of that tick's batch
C1_Witness ==
  \E i \in Invocations :
    /\ inv[i].pc = "send"
    /\ \E k \in 1..Len(inv[i].plays) :
         LET key == playKey(inv[i].plays[k], inv[i].dash)
         IN /\ ~inv[i].plays[k].belowGate
            /\ key \in DOMAIN inv[i].cache.plays
            /\ inv[i].nowTs - inv[i].cache.plays[key] < TTL
            /\ \A j \in 1..Len(inv[i].fresh) : playKey(inv[i].fresh[j], inv[i].dash) # key

inWindow(i) == clock - cacheFile.ts < MUTE
sendableNow(i) == sendableOf(inv[i].plays)

\* C2, as stated: a tick that runs less than 60 minutes after the last
\* recorded emission emits nothing unless one of its sendable plays is
\* A-tier, and with an A-tier play it is not muted.
C2_MuteUnlessATier ==
  [][\A i \in Invocations :
       (inv[i].pc = "gated" /\ sendableNow(i) # <<>> /\ inWindow(i))
         => IF hasATierOf(sendableNow(i))
            THEN outcome' # "muted"
            ELSE inv'[i].pc = "idle" /\ sentLog' = sentLog]_vars

\* C2, amended: the same of a tick that is not a debug run.
C2_MuteUnlessATierNonDebug ==
  [][\A i \in Invocations :
       (inv[i].pc = "gated" /\ sendableNow(i) # <<>> /\ inWindow(i) /\ ~inv[i].isDbg)
         => IF hasATierOf(sendableNow(i))
            THEN outcome' # "muted"
            ELSE inv'[i].pc = "idle" /\ sentLog' = sentLog]_vars

\* a tick muted inside the window of an earlier, recorded emission
C2_Witness ==
  /\ outcome = "muted"
  /\ cacheFile.ts > 0
  /\ clock - cacheFile.ts < MUTE

C5_GateRetainsAll ==
  \A i \in Invocations :
    inv[i].pc \in {"gated", "send"} =>
      /\ Len(inv[i].plays) = Len(inv[i].detected)
      /\ \A k \in 1..Len(inv[i].plays) :
           /\ inv[i].plays[k].id = inv[i].detected[k].id
           /\ inv[i].plays[k].dir = inv[i].detected[k].dir
           /\ inv[i].plays[k].quality = inv[i].dash.score[k]
           /\ inv[i].plays[k].belowGate \in BOOLEAN

\* a gated list that keeps a play below its gate next to one that passed
C5_Witness ==
  \E i \in Invocations :
    /\ inv[i].pc = "gated"
    /\ \E j, k \in 1..Len(inv[i].plays) :
         /\ inv[i].plays[j].belowGate /\ ~inv[i].plays[j].gateInfo.deny
         /\ ~inv[i].plays[k].belowGate

breakoutOutsideCompression(p, d) == p.id \in {5, 7} /\ ~d.REGIME.ltfCompression

\* C8: a play of rule #5 or #7 detected while the regime is not in LTF
\* compression is flagged belowGate and never sent, whatever its quality.
C8_BreakoutDenied ==
  \A i \in Invocations :
    /\ \A k \in 1..Len(inv[i].plays) :
         breakoutOutsideCompression(inv[i].plays[k], inv[i].dash)
           => inv[i].plays[k].belowGate
    /\ \A k \in 1..Len(inv[i].sent) :
         ~breakoutOutsideCompression(inv[i].sent[k], inv[i].dash)

\* an A-tier breakout play denied outside compression while the tick sends
\* another play
C8_Witness ==
  \E i \in Invocations :
    /\ inv[i].sent # <<>>
    /\ \E k \in 1..Len(inv[i].plays) :
         /\ breakoutOutsideCompression(inv[i].plays[k], inv[i].dash)
         /\ inv[i].plays[k].quality >= ATIER
         /\ inv[i].plays[k].belowGate

(***************************************************************************)
(* alert.js, the quality-score engine (lines 89-200).                      *)
(***************************************************************************)
\* per-factor weights (align, momentum, crowd, structure, risk), in tenths
WEIGHTS(id) ==
  CASE id = 1 -> <<10, 10, 10, 12, 8>>
    [] id = 2 -> <<10, 10, 10, 12, 8>>
    [] id = 3 -> <<7, 10, 15, 6, 12>>
    [] id = 4 -> <<8, 10, 13, 7, 12>>
    [] id = 5 -> <<10, 10, 12, 9, 9>>
    [] id = 6 -> <<9, 11, 10, 10, 10>>
    [] id = 7 -> <<9, 12, 11, 8, 10>>
    [] id = 8 -> <<10, 10, 13, 10, 7>>
    [] id = 9 -> <<10, 12, 12, 9, 7>>
    [] OTHER -> <<10, 10, 10, 10, 10>>          \* WEIGHTS.default

\* vwapBandWidthPct is null (NoBand here) or a percentage, in hundredths.
NoBand == -1

\* playBonus, lines 112-137; liq1h in millions of USD
playBonus(id, neckBreak, bandW, liq1h) ==
  CASE id = 2 -> IF neckBreak
                 THEN (IF bandW # NoBand /\ bandW <= 150 THEN 2 ELSE 1)
                 ELSE 0
    [] id = 4 -> IF liq1h >= 80 \/ neckBreak THEN 2
                 ELSE IF liq1h >= 40 THEN 1 ELSE 0
    [] id = 8 -> IF neckBreak /\ bandW # NoBand /\ bandW <= 150 THEN 2
                 ELSE IF neckBreak /\ bandW # NoBand /\ bandW <= 250 THEN 1
                 ELSE 0
    [] OTHER -> 0

\* line 192 with the risk term subtracted
weightedSum_riskSubtracted(f, w) ==
  f[1] * w[1] + f[2] * w[2] + f[3] * w[3] + f[4] * w[4] - f[5] * w[5]

\* rawFactors.reduce((s,v,i)=>s+v*w[i],0), line 192, in tenths
weightedSum(f, w) ==
  f[1] * w[1] + f[2] * w[2] + f[3] * w[3] + f[4] * w[4] + f[5] * w[5]

\* w.reduce((s,x)=>s+x,0)*2, line 193, in tenths
maxRawOf(w) == (w[1] + w[2] + w[3] + w[4] + w[5]) * 2

\* The code computes in IEEE doubles.  For the weights of id 9 the sum
\* 1.0+1.2+1.2+0.9+0.7 evaluates to 5.000000000000001, so a quotient that is
\* exactly a half in the reals evaluates just below it and Math.round goes
\* down, save for the two factor vectors whose weighted sum is itself
\* rounded up by as much.  Everywhere else the double and the exact
\* quotient round alike.
halfEvaluatesBelow(id, f) ==
  /\ id = 9
  /\ f \notin { <<2, 2, 1, 1, 0>>, <<2, 2, 2, 0, 1>> }

\* Math.round((weighted/maxRaw)*10), line 194
roundedScore(id, f) ==
  LET w == WEIGHTS(id)
      weighted == weightedSum(f, w)
      maxRaw == maxRawOf(w)
      exactHalf == (2 * 10 * weighted) % (2 * maxRaw) = maxRaw
      up == MathRound(10 * weighted, maxRaw)
  IN IF exactHalf /\ halfEvaluatesBelow(id, f) THEN up - 1 ELSE up

\* line 197 without the cap
addBonus_uncapped(score, bonus) == score + bonus

\* Math.min(10, score + playBonus(play,d)), line 197
addBonus(score, bonus) == Min(10, score + bonus)

\* computeQualityScore from the five sub-factors on (lines 188-199)
qualityOf(id, f, neckBreak, bandW, liq1h) ==
  addBonus(roundedScore(id, f), playBonus(id, neckBreak, bandW, liq1h))

Factors == [1..5 -> {0, 1, 2}]
BandWidths == {NoBand, 150, 151, 250, 251}
Liq1hs == {0, 40, 80}

ScoreArgs ==
  [id : 0..9, f : Factors, neckBreak : BOOLEAN, bandW : BandWidths, liq1h : Liq1hs]

computeQualityScore(a) == qualityOf(a.id, a.f, a.neckBreak, a.bandW, a.liq1h)

TicksIdle ==
  /\ cacheFile = EmptyCache /\ clock = MUTE /\ ticks = 0
  /\ inv = [i \in {1} |-> Idle] /\ sentLog = <<>> /\ outcome = "none" /\ scope = "none"

InitScore ==
  /\ TicksIdle
  /\ fn = "computeQualityScore" /\ args \in ScoreArgs /\ ret = 0 /\ done = FALSE

EvalScore ==
  /\ fn = "computeQualityScore" /\ ~done
  /\ ret' = computeQualityScore(args)
  /\ done' = TRUE
  /\ UNCHANGED <<fn, args, cacheFile, clock, ticks, inv, sentLog, outcome, scope>>

SpecScore == InitScore /\ [][EvalScore]_vars

scored == fn = "computeQualityScore" /\ done

\* C6: computeQualityScore returns an integer in [0,10] for every
\* combination of the five sub-factors in {0,1,2}, every weight vector and
\* every catalyst bonus in {0,1,2}.
C6_ScoreInRange ==
  scored => /\ ret \in 0..10
            /\ playBonus(args.id, args.neckBreak, args.bandW, args.liq1h) \in {0, 1, 2}

\* the cap at work: a rounded score of 9 or more with a bonus of 2
C6_Witness ==
  /\ scored
  /\ ret = 10
  /\ roundedScore(args.id, args.f) >= 9
  /\ playBonus(args.id, args.neckBreak, args.bandW, args.liq1h) = 2

raised(a, k) == [a EXCEPT !.f[k] = 2]

\* C7: for any signal type, raising any one of the five sub-factors from 0
\* to 2, the other four and the catalyst bonus held fixed, never decreases
\* the score.
C7_ScoreMonotone ==
  scored => \A k \in 1..5 : args.f[k] = 0 => computeQualityScore(raised(args, k)) >= ret

\* raising a sub-factor across a half that the doubles round down: id 9,
\* crowd raised from 0 to 2
C7_Witness ==
  /\ scored
  /\ args.id = 9
  /\ args.f[3] = 0
  /\ (2 * 10 * weightedSum(raised(args, 3).f, WEIGHTS(9))) % (2 * maxRawOf(WEIGHTS(9)))
       = maxRawOf(WEIGHTS(9))
  /\ computeQualityScore(raised(args, 3)) > ret

(***************************************************************************)
(* edge-data.js, the primary lines (lines 445-512).  A pivot is            *)
(* [idx, price]; a fitted line is the pair of positions <<a, b>> of its    *)
(* anchors in the pivot list.  Slopes and line values are rationals in the *)
(* code's doubles; here they are compared by cross-multiplication.         *)
(***************************************************************************)
MIN_GAP_BARS == 14
CONTAIN_MAX_VIOLS == 2
CONTAIN_TOL_PCT == 8          \* 0.008, in thousandths

Null == <<>>

\* (slope * P.idx + intercept) * (B.idx - A.idx), lines 454-455 and 461
lineAt(A, B, P) == A.price * (B.idx - A.idx) + (B.price - A.price) * (P.idx - A.idx)

\* P.price < lineAtP * (1 - CONTAIN_TOL_PCT), line 462
breachesBelow(A, B, P) ==
  P.price * 1000 * (B.idx - A.idx) < lineAt(A, B, P) * (1000 - CONTAIN_TOL_PCT)

\* P.price > lineAtP * (1 + CONTAIN_TOL_PCT), line 495
breachesAbove(A, B, P) ==
  P.price * 1000 * (B.idx - A.idx) > lineAt(A, B, P) * (1000 + CONTAIN_TOL_PCT)

breaches(side, A, B, P) ==
  IF side = "support" THEN breachesBelow(A, B, P) ELSE breachesAbove(A, B, P)

\* the filter taking the pivots from the second anchor on
pivotsFromA_fromB(pv, a, b) == { k \in 1..Len(pv) : pv[k].idx >= pv[b].idx }

\* pivots.filter(p => p.idx >= A.idx), lines 459 and 492
pivotsFromA(pv, a, b) == { k \in 1..Len(pv) : pv[k].idx >= pv[a].idx }

\* the count of lines 458-465 and 491-498 (the loop stops counting once the
\* allowance is exceeded, which does not change the test that follows)
violOf(side, pv, a, b) ==
  Cardinality({ k \in pivotsFromA(pv, a, b) : breaches(side, pv[a], pv[b], pv[k]) })

\* the pairs that reach the comparison with best, lines 450-466 and 483-499
candidates(side, pv) ==
  { c \in (1..Len(pv)) \X (1..Len(pv)) :
      /\ c[1] < c[2]
      /\ ~(pv[c[2]].idx - pv[c[1]].idx < MIN_GAP_BARS)
      /\ ~(violOf(side, pv, c[1], c[2]) > CONTAIN_MAX_VIOLS) }

\* the pairs <<a, b>> in the order the loops of lines 450-451 and 483-484
\* visit them: a ascending, then b ascending
RECURSIVE pairsFrom(_, _, _)
pairsFrom(n, a, b) ==
  IF a >= n THEN <<>>
  ELSE IF b > n THEN pairsFrom(n, a + 1, a + 2)
  ELSE << <<a, b>> >> \o pairsFrom(n, a, b + 1)

\* slope of c > slope of e
steeper(pv, c, e) ==
  (pv[c[2]].price - pv[c[1]].price) * (pv[e[2]].idx - pv[e[1]].idx)
    > (pv[e[2]].price - pv[e[1]].price) * (pv[c[2]].idx - pv[c[1]].idx)

\* c is visited before e by the loops over a and b
earlier(c, e) == c[1] < e[1] \/ (c[1] = e[1] /\ c[2] < e[2])

\* slope >= best.slope: the last pair found wins a tie
beats_orEqual(side, pv, c, e) ==
  IF side = "support" THEN ~steeper(pv, e, c) ELSE ~steeper(pv, c, e)

\* slope > best.slope (support), slope < best.slope (resistance): lines 468, 501
beats(side, pv, c, e) ==
  IF side = "support" THEN steeper(pv, c, e) ELSE steeper(pv, e, c)

\* one pass of the inner loop, lines 452-470 and 485-503: the pair is
\* skipped by one of the two `continue`s, or compared with best
visit(side, pv, c, best) ==
  IF pv[c[2]].idx - pv[c[1]].idx < MIN_GAP_BARS THEN best
  ELSE IF violOf(side, pv, c[1], c[2]) > CONTAIN_MAX_VIOLS THEN best
  ELSE IF best = Null THEN c
  ELSE IF beats(side, pv, c, best) THEN c
  ELSE best

\* best after the pairs from position k on
RECURSIVE bestFrom(_, _, _, _, _)
bestFrom(side, pv, pairs, k, best) ==
  IF k > Len(pairs) THEN best
  ELSE bestFrom(side, pv, pairs, k + 1, visit(side, pv, pairs[k], best))

\* lines 448-479 and 481-512: best, Null (null) when no pair survived
pickPrimary(side, pv) == bestFrom(side, pv, pairsFrom(Len(pv), 1, 2), 1, Null)

pickPrimarySupport(pv) == pickPrimary("support", pv)
pickPrimaryResistance(pv) == pickPrimary("resistance", pv)

(***************************************************************************)
(* The pivot lists the fitter is called on: what zigzagPivots returns,     *)
(* cut to the lookback window (lines 441-446).  Successive pivots          *)
(* alternate between peaks and troughs, each leg reverses the one before   *)
(* by SWING_ZZ_PCT or more, and the indices span less than                 *)
(* SWING_LOOKBACK_DAYS bars.  Bar prices are in dollars.                   *)
(***************************************************************************)
SWING_LOOKBACK_DAYS == 60
SWING_ZZ_PCT == 600           \* 0.06, in 1/10000

MaxPivots == 6
PivotLevels == {96, 100, 120, 143, 150}
PivotGaps == {3, 14}

\* the leg from price x to price y is a reversal the ZigZag confirms
isLeg(x, y) == Abs(y - x) * 10000 >= SWING_ZZ_PCT * Max(x, 1)

zigzagShaped(pv) ==
  /\ \A k \in 1..(Len(pv) - 1) :
       /\ pv[k].idx < pv[k + 1].idx
       /\ pv[k].price # pv[k + 1].price
       /\ isLeg(pv[k].price, pv[k + 1].price)
  /\ \A k \in 1..(Len(pv) - 2) :
       (pv[k + 1].price > pv[k].price) = (pv[k + 1].price > pv[k + 2].price)
  /\ Len(pv) > 0 => pv[Len(pv)].idx - pv[1].idx < SWING_LOOKBACK_DAYS

\* the lists of n pivots, grown one pivot at a time
RECURSIVE ListsOfLen(_)
ListsOfLen(n) ==
  IF n = 0 THEN { <<>> }
  ELSE { pv \in { Append(q, [idx |-> IF q = <<>> THEN 0 ELSE q[Len(q)].idx + g,
                             price |-> x]) :
                    q \in ListsOfLen(n - 1), x \in PivotLevels, g \in PivotGaps } :
           zigzagShaped(pv) }

PivotLists(m) == UNION { ListsOfLen(n) : n \in 0..m }

InitTrend ==
  /\ TicksIdle
  /\ fn \in {"pickPrimarySupport", "pickPrimaryResistance"}
  /\ args \in PivotLists(MaxPivots)
  /\ ret = Null /\ done = FALSE

\* line 514
EvalSupport ==
  /\ fn = "pickPrimarySupport" /\ ~done
  /\ ret' = pickPrimarySupport(args)
  /\ done' = TRUE
  /\ UNCHANGED <<fn, args, cacheFile, clock, ticks, inv, sentLog, outcome, scope>>

\* line 515
EvalResistance ==
  /\ fn = "pickPrimaryResistance" /\ ~done
  /\ ret' = pickPrimaryResistance(args)
  /\ done' = TRUE
  /\ UNCHANGED <<fn, args, cacheFile, clock, ticks, inv, sentLog, outcome, scope>>

NextTrend == EvalSupport \/ EvalResistance

SpecTrend == InitTrend /\ [][NextTrend]_vars

fitted == fn \in {"pickPrimarySupport", "pickPrimaryResistance"} /\ done /\ ret # Null
sideOf(f) == IF f = "pickPrimarySupport" THEN "support" ELSE "resistance"

\* the pivots of the list that breach the fitted line by more than the tolerance
breaching == { k \in 1..Len(args) : breaches(sideOf(fn), args[ret[1]], args[ret[2]], args[k]) }

\* C9, as stated: for every line the fitter accepts, the number of pivots of
\* its list that breach the line by more than the tolerance is at most the
\* maximum violation count.
C9_AllPivotsContained ==
  fitted => Cardinality(breaching) <= CONTAIN_MAX_VIOLS

\* C9, amended: the same of the pivots at or after the line's first anchor
\* (idx >= A.idx); pivots before it are not examined.
C9_PivotsFromAnchorContained ==
  fitted =>
    Cardinality({ k \in breaching : args[k].idx >= args[ret[1]].idx }) <= CONTAIN_MAX_VIOLS

\* an accepted line that uses up the allowance after its first anchor and is
\* breached once more before it
C9_Witness ==
  /\ fitted
  /\ Cardinality({ k \in breaching : args[k].idx >= args[ret[1]].idx }) = CONTAIN_MAX_VIOLS
  /\ \E k \in breaching : args[k].idx < args[ret[1]].idx

(***************************************************************************)
(* The pivot detectors: zigzagPivots (edge-data.js, lines 176-210) and the *)
(* fractal swings (part_001, lines 408-418).  A series is a sequence of    *)
(* prices; the code's index i is position i + 1 of the sequence.           *)
(***************************************************************************)
SWING_FRACTAL_N == 2

at(series, i) == series[i + 1]

\* if (p >= lastExtreme) { lastExtreme = p; lastExtremeIdx = i; }, line 187
extendUp(st, p, i) ==
  IF p >= st.lastExtreme THEN [st EXCEPT !.lastExtreme = p, !.lastExtremeIdx = i] ELSE st

\* line 195
extendDown(st, p, i) ==
  IF p <= st.lastExtreme THEN [st EXCEPT !.lastExtreme = p, !.lastExtremeIdx = i] ELSE st

\* retrace >= thr, lines 188-189 and 196-197; thr in 1/10000
reverses(retrace, lastExtreme, thr) == retrace * 10000 >= thr * Max(lastExtreme, 1)

\* lines 190-191 and 198-199
confirm(st, prices, p, i, newDir) ==
  [pivots |-> Append(st.pivots, [idx |-> st.lastExtremeIdx,
                                 price |-> at(prices, st.lastExtremeIdx)]),
   dir |-> newDir, lastExtreme |-> p, lastExtremeIdx |-> i]

\* lines 186-193
upBlock(st, prices, p, i, thr) ==
  IF st.dir >= 0
  THEN LET e == extendUp(st, p, i)
       IN IF reverses(e.lastExtreme - p, e.lastExtreme, thr)
          THEN confirm(e, prices, p, i, -1) ELSE e
  ELSE st

\* lines 194-201
downBlock(st, prices, p, i, thr) ==
  IF st.dir <= 0
  THEN LET e == extendDown(st, p, i)
       IN IF reverses(p - e.lastExtreme, e.lastExtreme, thr)
          THEN confirm(e, prices, p, i, 1) ELSE e
  ELSE st

\* one pass of the loop body, lines 185-201, for bar i
zzStep(st, prices, i, thr) ==
  downBlock(upBlock(st, prices, at(prices, i), i, thr), prices, at(prices, i), i, thr)

\* the loop of lines 184-202 over the bars from .. to - 1, in order: the
\* first half of the range, then the second from the state the first left
RECURSIVE zzRange(_, _, _, _, _)
zzRange(st, prices, from, to, thr) ==
  IF from >= to THEN st
  ELSE IF to = from + 1 THEN zzStep(st, prices, from, thr)
  ELSE LET mid == (from + to) \div 2
           half == zzRange(st, prices, from, mid, thr)
       IN IF half.lastExtremeIdx < mid THEN zzRange(half, prices, mid, to, thr) ELSE st

\* the loop of lines 184-202, from index i on
zzWalk(st, prices, i, thr) == zzRange(st, prices, i, Len(prices), thr)

\* lines 205-208: a pivot repeating the index of the one before is dropped
dedup(pivots) ==
  LET keep == { k \in 1..Len(pivots) : k = 1 \/ pivots[k].idx # pivots[k - 1].idx }
      nth(j) == CHOOSE k \in keep : Cardinality({ m \in keep : m < k }) = j - 1
  IN [j \in 1..Cardinality(keep) |-> pivots[nth(j)]]

\* the function returning the confirmed pivots only
withOpenLeg_dropped(st, prices) == st.pivots

\* pivots.push({ idx: lastExtremeIdx, price: prices[lastExtremeIdx] }), line 203
withOpenLeg(st, prices) ==
  Append(st.pivots, [idx |-> st.lastExtremeIdx, price |-> at(prices, st.lastExtremeIdx)])

zigzagPivots(prices, pct) ==
  IF Len(prices) = 0 THEN <<>>
  ELSE LET thr == Max(pct, 1)
           st == zzWalk([pivots |-> <<>>, dir |-> 0, lastExtreme |-> at(prices, 0),
                         lastExtremeIdx |-> 0], prices, 1, thr)
       IN dedup(withOpenLeg(st, prices))

\* Math.max / Math.min of series.slice(i-n, i+n+1), lines 412-413
segHigh(highs, i, n) ==
  CHOOSE x \in { at(highs, j) : j \in (i - n)..(i + n) } :
    \A y \in { at(highs, j) : j \in (i - n)..(i + n) } : x >= y
segLow(lows, i, n) ==
  CHOOSE x \in { at(lows, j) : j \in (i - n)..(i + n) } :
    \A y \in { at(lows, j) : j \in (i - n)..(i + n) } : x <= y

\* the increasing sequence of the indices in S
RECURSIVE ascending(_)
ascending(S) ==
  IF S = {} THEN <<>>
  ELSE LET m == CHOOSE x \in S : \A y \in S : x <= y
       IN <<m>> \o ascending(S \ {m})

\* lines 409-416: swingHighs and swingLows
fractalSwings(highs, lows) ==
  LET n == SWING_FRACTAL_N
      len == Len(highs)
      hi == ascending({ i \in n..(len - n - 1) : at(highs, i) = segHigh(highs, i, n) })
      lo == ascending({ i \in n..(len - n - 1) : at(lows, i) = segLow(lows, i, n) })
  IN [swingHighs |-> [k \in 1..Len(hi) |-> [idx |-> hi[k], price |-> at(highs, hi[k])]],
      swingLows |-> [k \in 1..Len(lo) |-> [idx |-> lo[k], price |-> at(lows, lo[k])]]]

MaxLen == 6
SeriesLevels == {100, 104, 110}       \* 4 %, 5.8 % and 10 % apart

SeriesOfLen(n) == [1..n -> SeriesLevels]
Series(m) == UNION { SeriesOfLen(n) : n \in 0..m }

\* daily bars: the low of a bar is not above its high
BarKinds == { b \in SeriesLevels \X SeriesLevels : b[2] <= b[1] }
RECURSIVE BarsOfLen(_)
BarsOfLen(n) ==
  IF n = 0 THEN { [highs |-> <<>>, lows |-> <<>>] }
  ELSE { [highs |-> Append(b.highs, k[1]), lows |-> Append(b.lows, k[2])] :
           b \in BarsOfLen(n - 1), k \in BarKinds }
Bars(m) == UNION { BarsOfLen(n) : n \in 0..m }

\* a series rising by 1 % a bar: each price is 101/100 of the one before,
\* in units of 1/100 and rounded down to a unit
RisingBars == 30
RisingPrices ==
  << 10000, 10100, 10201, 10303, 10406, 10510, 10615, 10721,
     10828, 10936, 11045, 11155, 11266, 11378, 11491, 11605,
     11721, 11838, 11956, 12075, 12195, 12316, 12439, 12563,
     12688, 12814, 12942, 13071, 13201, 13333, 13466, 13600,
     13736, 13873, 14011, 14151, 14292, 14434, 14578, 14723 >>
Rising == SubSeq(RisingPrices, 1, RisingBars)

InitPivot ==
  /\ TicksIdle
  /\ \/ fn = "zigzagPivots"
        /\ args \in [prices : Series(MaxLen) \cup {Rising}, pct : {SWING_ZZ_PCT}]
     \/ fn = "fractalSwings" /\ args \in Bars(MaxLen)
  /\ ret = Null /\ done = FALSE

\* edge-data.js, lines 445-446
EvalZigzag ==
  /\ fn = "zigzagPivots" /\ ~done
  /\ ret' = zigzagPivots(args.prices, args.pct)
  /\ done' = TRUE
  /\ UNCHANGED <<fn, args, cacheFile, clock, ticks, inv, sentLog, outcome, scope>>

\* part_001, lines 409-416
EvalFractal ==
  /\ fn = "fractalSwings" /\ ~done
  /\ ret' = fractalSwings(args.highs, args.lows)
  /\ done' = TRUE
  /\ UNCHANGED <<fn, args, cacheFile, clock, ticks, inv, sentLog, outcome, scope>>

NextPivot == EvalZigzag \/ EvalFractal

SpecPivot == InitPivot /\ [][NextPivot]_vars

flat(series) == \A j, k \in 1..Len(series) : series[j] = series[k]
zigzagOnFlat == fn = "zigzagPivots" /\ done /\ flat(args.prices)
fractalOnFlat ==
  fn = "fractalSwings" /\ done /\ flat(args.highs) /\ args.lows = args.highs

\* C10, as stated: a flat series (all highs, lows and closes equal) yields
\* no swing high and no swing low from the fractal detector and no pivot
\* from the ZigZag detector.
C10_FlatYieldsNoPivot ==
  /\ zigzagOnFlat => ret = <<>>
  /\ fractalOnFlat => ret.swingHighs = <<>> /\ ret.swingLows = <<>>

\* C10, amended: on a flat series the ZigZag detector returns exactly one
\* pivot, the open leg's, at the last index (none only for the empty
\* series), and the fractal detector returns a swing high and a swing low at
\* every index i with n <= i < len - n (none only when len < 2n + 1).
C10_FlatPivots ==
  /\ zigzagOnFlat =>
       ret = IF Len(args.prices) = 0 THEN <<>>
             ELSE << [idx |-> Len(args.prices) - 1, price |-> args.prices[1]] >>
  /\ fractalOnFlat =>
       LET len == Len(args.highs)
           mid == [k \in 1..Max(len - 2 * SWING_FRACTAL_N, 0) |->
                     [idx |-> SWING_FRACTAL_N + k - 1, price |-> args.highs[1]]]
       IN ret.swingHighs = mid /\ ret.swingLows = mid

\* the ZigZag detector called on a flat series of the full length
C10_Witness ==
  /\ zigzagOnFlat
  /\ Len(args.prices) = MaxLen
  /\ Len(ret) = 1

\* a series in which every bar is above the one before by less than pct
climbs(prices, pct) ==
  /\ Len(prices) >= 2
  /\ \A k \in 1..(Len(prices) - 1) :
       /\ prices[k + 1] > prices[k]
       /\ ~reverses(prices[k + 1] - prices[k], prices[k], pct)
\* ... and whose last bar is above the first by pct or more
climbsThrough(prices, pct) ==
  /\ climbs(prices, pct)
  /\ reverses(prices[Len(prices)] - prices[1], prices[1], pct)

zigzagOnRising == fn = "zigzagPivots" /\ done /\ args.prices = Rising

\* C11, as stated: the series rising by 1 % a bar for 30 bars, given to
\* zigzagPivots with pct = 0.06, yields exactly one pivot, the low at the
\* start of the series (index 0), and no confirmed high.
C11_RisingYieldsStartLow ==
  zigzagOnRising => Len(ret) = 1 /\ ret[1].idx = 0 /\ ret[1].price = args.prices[1]

\* what the function returns on every series that climbs through pct in
\* steps smaller than pct: the open leg's pivot at the last bar and nothing
\* else, no pivot at the start
C11_RisingYieldsLastBar ==
  (fn = "zigzagPivots" /\ done /\ climbsThrough(args.prices, args.pct))
    => ret = << [idx |-> Len(args.prices) - 1, price |-> args.prices[Len(args.prices)]] >>

C11_Witness == zigzagOnRising /\ climbsThrough(args.prices, args.pct) /\ Len(ret) = 1

(***************************************************************************)
(* The regime classifier: computeRegime (alert.js, lines 205-237).  The    *)
(* snapshot fields it reads are the argument; $(x) has been applied, so a  *)
(* missing or degenerate field is 0.  Percentages are in units of 1/100 %. *)
(***************************************************************************)
\* ema50d && ema200d && ema50d > ema200d, line 218, read without the guards
emaTrendUp_unguarded(d) == d.ema50d > d.ema200d

\* line 218
emaTrendUp(d) == d.ema50d # 0 /\ d.ema200d # 0 /\ d.ema50d > d.ema200d
\* line 219
emaTrendDown(d) == d.ema50d # 0 /\ d.ema200d # 0 /\ d.ema50d < d.ema200d
\* line 220
adxStrongOf(d) == d.adx4h >= 25
\* lines 221-222
above4h50(d) == d.price > d.ema50_4h
below4h50(d) == d.price < d.ema50_4h

\* lines 224-226
htfOf(d) ==
  IF (emaTrendUp(d) /\ above4h50(d)) \/ (adxStrongOf(d) /\ above4h50(d)) THEN "up"
  ELSE IF (emaTrendDown(d) /\ below4h50(d)) \/ (adxStrongOf(d) /\ below4h50(d)) THEN "down"
  ELSE "range"

\* lines 211-212
volHigh15(d) == d.relVol15 \in {"high", "very high"}
\* lines 229-231
compressionOf(d) ==
  (d.bandW # NoBand /\ d.bandW <= 200) /\ d.atr15 <= 80 /\ ~volHigh15(d)
\* line 232; roc15 is Math.abs of roc10, line 214
expansionOf(d) == ~compressionOf(d) /\ (Abs(d.roc10) >= d.atr15 \/ volHigh15(d))

computeRegime(d) ==
  [htf |-> htfOf(d), adxStrong |-> adxStrongOf(d),
   ltfCompression |-> compressionOf(d), ltfExpansion |-> expansionOf(d)]

\* snapshots: prices and EMAs around 100, 0 for an EMA not yet defined
Snapshots ==
  [price : {90, 100, 110}, ema50d : {0, 95, 105}, ema200d : {0, 100},
   ema50_4h : {0, 100}, adx4h : {0, 24, 25}, relVol15 : {"normal", "high"},
   atr15 : {80, 81}, roc10 : {-90, 0}, bandW : {NoBand, 200, 201}]

InitRegime ==
  /\ TicksIdle
  /\ fn = "computeRegime" /\ args \in Snapshots
  /\ ret = Null /\ done = FALSE

\* const R = computeRegime(d), alert.js line 575
EvalRegime ==
  /\ fn = "computeRegime" /\ ~done
  /\ ret' = computeRegime(args)
  /\ done' = TRUE
  /\ UNCHANGED <<fn, args, cacheFile, clock, ticks, inv, sentLog, outcome, scope>>

SpecRegime == InitRegime /\ [][EvalRegime]_vars

classified == fn = "computeRegime" /\ done

\* C12, as stated: htf is up exactly when (1d EMA50 > 1d EMA200 and price >
\* 4h EMA50) or (4h ADX14 >= 25 and price > 4h EMA50), down exactly when
\* the mirrored condition holds, and range otherwise, on every snapshot,
\* those with an EMA of 0 included.
C12_HtfByComparison ==
  classified =>
    LET up == (args.ema50d > args.ema200d /\ args.price > args.ema50_4h)
                \/ (args.adx4h >= 25 /\ args.price > args.ema50_4h)
        down == (args.ema50d < args.ema200d /\ args.price < args.ema50_4h)
                  \/ (args.adx4h >= 25 /\ args.price < args.ema50_4h)
    IN /\ ret.htf = "up" <=> up
       /\ ret.htf = "down" <=> down
       /\ ret.htf = "range" <=> ~up /\ ~down

\* C12, amended: the comparison of the daily EMAs counts only when both are
\* non-zero; with that, htf is up exactly when (EMA trend up and price > 4h
\* EMA50) or (ADX >= 25 and price > 4h EMA50), down exactly when the
\* mirrored condition holds, and range otherwise.
C12_HtfByDefinedEmas ==
  classified =>
    LET both == args.ema50d # 0 /\ args.ema200d # 0
        up == (both /\ args.ema50d > args.ema200d /\ args.price > args.ema50_4h)
                \/ (args.adx4h >= 25 /\ args.price > args.ema50_4h)
        down == (both /\ args.ema50d < args.ema200d /\ args.price < args.ema50_4h)
                  \/ (args.adx4h >= 25 /\ args.price < args.ema50_4h)
    IN /\ ret.htf = "up" <=> up
       /\ ret.htf = "down" <=> down
       /\ ret.htf = "range" <=> ~up /\ ~down

\* the 1d EMA200 is 0, the 1d EMA50 is above it, price is above the 4h
\* EMA50, ADX is weak: classified range
C12_Witness ==
  /\ classified
  /\ args.ema200d = 0 /\ args.ema50d > 0
  /\ args.price > args.ema50_4h /\ args.adx4h < 25
  /\ ret.htf = "range"

(***************************************************************************)
(* The signal detector: evaluateSignals (alert.js, lines 282-488).  d is   *)
(* the snapshot with $(x) applied to the fields the code reads through $,  *)
(* so a missing number is 0.  Prices are whole numbers; percentages (ATR,  *)
(* ROC, funding z-score, relative volume) are in units of 1/100; the       *)
(* liquidations are in millions; entry, stop and tp1 of a play are in      *)
(* units of 1/1000000 of a price unit.  d.failed holds the sections of the *)
(* snapshot whose block of the builder failed (edge-data.js, lines 213-227 *)
(* and 267-275), leaving dataA[tf] or dataC[tf] undefined.                 *)
(***************************************************************************)
\* parseFloat(null), or a field that is undefined: every comparison is false
NaN == -1000000

gt(x, y) == x # NaN /\ x > y

\* line 286
distOK(price, lvl, p) == lvl # 0 /\ price > 0 /\ Abs(lvl - price) * 100 <= p * price

when(c, reason) == IF c THEN << reason >> ELSE << >>

\* addCheck(id, name, true) after plays.push(...), lines 288-290
detected(id, ps) ==
  [threw |-> FALSE, plays |-> ps,
   check |-> [id |-> id, result |-> "DETECTED", reasons |-> << >>]]
\* addCheck(id, name, false, reasons)
skipped(id, reasons) ==
  [threw |-> FALSE, plays |-> << >>,
   check |-> [id |-> id, result |-> "SKIPPED", reasons |-> reasons]]
\* a TypeError reading a property of undefined: the function returns nothing
throws(id) == [threw |-> TRUE, rule |-> id]

play(id, dir, entry, stop, tp1) ==
  [id |-> id, dir |-> dir, entry |-> entry, stop |-> stop, tp1 |-> tp1]

\* #1 HH20 Break-Retest, lines 293-309
rule1(d) ==
  LET HH20 == d.HH20
      c1 == distOK(d.price, HH20, 5)
      c2 == HH20 # 0 /\ d.price * 1000 > HH20 * 1001
  IN IF c1 /\ c2
     THEN detected(1, << play(1, "LONG", << HH20 * 1000500, HH20 * 1001500 >>,
                              HH20 * 992000, HH20 * 1015000) >>)
     ELSE skipped(1, when(HH20 = 0, "HH20 missing")
                       \o when(~c1, "price not within 5% of HH20")
                       \o when(HH20 # 0 /\ ~c2, "price not > HH20 by 0.1%"))

\* #2 AVWAP Reclaim, lines 312-332
rule2(d) ==
  LET avwap == d.avwapCycle
      ageDays == d.nowDay - d.avwapAnchorDay
      c1 == distOK(d.price, avwap, 5)
      c2 == ageDays <= 30
      c3 == avwap # 0 /\ d.price * 1000 > avwap * 1001
  IN IF c1 /\ c2 /\ c3
     THEN IF "A4h" \in d.failed THEN throws(2)
          ELSE detected(2, << play(2, "LONG", << avwap * 1000000, avwap * 1001000 >>,
                                   avwap * (1000000 - 100 * d.atr4h), d.price * 1015000) >>)
     ELSE skipped(2, when(avwap = 0, "AVWAP missing")
                       \o when(~c1, "price not near AVWAP")
                       \o when(~c2, "anchor too old")
                       \o when(avwap # 0 /\ ~c3, "no reclaim"))

\* 1 for LONG, -1 for SHORT
sgn(dir) == IF dir = "LONG" THEN 1 ELSE -1

\* #3 Funding Fade, lines 335-347
rule3(d) ==
  LET c1 == d.fundingZ # NaN /\ Abs(d.fundingZ) >= 200
      dir == IF gt(d.fundingZ, 0) THEN "SHORT" ELSE "LONG"
      s == sgn(dir)
  IN IF c1
     THEN detected(3, << play(3, dir, << d.price * 1000000 >>,
                              d.price * (1000000 - s * 6000),
                              d.price * (1000000 + s * 7500)) >>)
     ELSE skipped(3, << "|fundingZ| < 2" >>)

\* #4 Liq-Sweep, lines 350-368
rule4(d) ==
  LET bigLiq == Max(d.long1h, d.short1h)
      c1 == bigLiq >= 25
      c2 == d.atr15 <= 150
      dir == IF d.short1h > d.long1h THEN "LONG" ELSE "SHORT"
      s == sgn(dir)
  IN IF "A15m" \in d.failed THEN throws(4)
     ELSE IF c1 /\ c2
     THEN detected(4, << play(4, dir, << d.price * (1000000 - 700 * s) >>,
                              d.price * (1000000 - 4000 * s),
                              d.price * (1000000 + 4000 * s)) >>)
     ELSE skipped(4, when(~c1, "liquidations < 25M") \o when(~c2, "ATR15 > 1.5%"))

\* #5 High-OI Box, lines 371-386
rule5(d) ==
  LET c1 == d.oi30dPct >= 95
      c2 == Abs(d.oiDelta24h) <= 2
  IN IF c1 /\ c2
     THEN detected(5, << play(5, "BREAK", << d.price * 1000000 >>,
                              d.price * 982000, d.price * 1040000) >>)
     ELSE skipped(5, when(~c1, "OI30d < 95%") \o when(~c2, "|oi delta 24h| > 2%"))

\* #6 EMA Pull-back, lines 389-411
rule6(d) ==
  LET c1 == d.adx14 > 20
      c2 == d.ema50d > d.ema200d
      c3 == d.price < d.ema50_4h
  IN IF "A4h" \in d.failed \/ "A1d" \in d.failed THEN throws(6)
     ELSE IF c1 /\ c2 /\ c3
     THEN detected(6, << play(6, "LONG", << d.ema50_4h * 999000 >>,
                              d.ema50_4h * 990000, d.ema50_4h * 1018980) >>)
     ELSE skipped(6, when(~c1, "ADX4h <= 20") \o when(~c2, "EMA50d <= EMA200d")
                       \o when(~c3, "price >= EMA50 4h"))

\* #7 Opening-Range, lines 414-436
rule7(d) ==
  LET c1 == d.minute = 20
      c2 == d.atr15 < 50
      c3 == gt(d.asia, 120)
  IN IF "A15m" \in d.failed THEN throws(7)
     ELSE IF c1 /\ c2 /\ c3
     THEN detected(7, << play(7, "BREAK", << d.price * 1000000 >>,
                              d.price * (1000000 - 100 * d.atr15),
                              d.price * (1000000 + 150 * d.atr15)) >>)
     ELSE skipped(7, when(~c1, "minute != 20") \o when(~c2, "ATR15 >= 0.5%")
                       \o when(~c3, "Asia rel vol <= 1.2"))

\* vwapBandWidthPct, lines 106-111: the width is 100 * num / den per cent,
\* or null
vwapBandWidthPct(d) ==
  IF d.vwapUpper # 0 /\ d.vwapLower # 0 /\ d.vwap # 0
  THEN [null |-> FALSE, num |-> d.vwapUpper - d.vwapLower, den |-> 2 * d.vwap]
  ELSE IF d.vwapUpper # 0 /\ d.vwap # 0
  THEN [null |-> FALSE, num |-> d.vwapUpper - d.vwap, den |-> d.vwap]
  ELSE [null |-> TRUE, num |-> 0, den |-> 1]

\* #8 VWAP Fade, lines 439-464
rule8(d) ==
  LET bandW == vwapBandWidthPct(d)
      bandOK == ~bandW.null /\ bandW.num # 0 /\ 100 * bandW.num < 3 * bandW.den
      upper == d.vwapUpper # 0 /\ d.price > d.vwapUpper /\ distOK(d.price, d.vwapUpper, 3)
      lower == d.vwapLower # 0 /\ d.price < d.vwapLower /\ distOK(d.price, d.vwapLower, 3)
      short == when(bandOK /\ upper,
                    play(8, "SHORT", << d.price * 1000000 >>, d.price * 1007000,
                         d.vwap * 1000000))
      long == when(bandOK /\ lower,
                   play(8, "LONG", << d.price * 1000000 >>, d.price * 993000,
                        d.vwap * 1000000))
  IN IF short \o long # << >>
     THEN detected(8, short \o long)
     ELSE skipped(8, when(~bandOK, "bandW >= 3% or missing")
                       \o when(bandOK /\ ~upper, "no upper fade condition")
                       \o when(bandOK /\ ~lower, "no lower fade condition"))

\* #9 Session Kick, lines 467-485
rule9(d) ==
  LET c1 == d.hr = 8 \/ d.hr = 14
      c2 == Abs(d.roc1h) >= 40
      c3 == gt(d.asia, 150) \/ gt(d.eu, 150)
      dir == IF d.roc1h > 0 THEN "LONG" ELSE "SHORT"
      s == sgn(dir)
  IN IF "C1h" \in d.failed THEN throws(9)
     ELSE IF c1 /\ c2 /\ c3
     THEN detected(9, << play(9, dir, << d.price * 1000000 >>,
                              d.price * (1000000 - s * 4000),
                              d.price * (1000000 + s * 10000)) >>)
     ELSE skipped(9, when(~c1, "hour not 8 or 14 UTC") \o when(~c2, "|ROC1h| < 0.4%")
                       \o when(~c3, "session vol low"))

Rules == 1..9

ruleOf(k, d) ==
  CASE k = 1 -> rule1(d) [] k = 2 -> rule2(d) [] k = 3 -> rule3(d)
    [] k = 4 -> rule4(d) [] k = 5 -> rule5(d) [] k = 6 -> rule6(d)
    [] k = 7 -> rule7(d) [] k = 8 -> rule8(d) [] k = 9 -> rule9(d)

\* the blocks of lines 292-485 in order, from rule k on; a block that throws
\* ends the call
RECURSIVE evalFrom(_, _, _)
evalFrom(k, d, acc) ==
  IF k \notin Rules THEN acc
  ELSE LET r == ruleOf(k, d)
       IN IF r.threw THEN r
          ELSE evalFrom(k + 1, d, [threw |-> FALSE, plays |-> acc.plays \o r.plays,
                                   checks |-> Append(acc.checks, r.check)])

\* return { plays, checks }, line 487
evaluateSignals(d) == evalFrom(1, d, [threw |-> FALSE, plays |-> << >>, checks |-> << >>])

\* snapshots around a price of 100, at 08:20 or 09:21 UTC of day 20000; the
\* VWAP band is vwap -/+ sigma, so vwapLower <= vwap <= vwapUpper
NowDay == 20000
AvwapKinds == { <<0, 0>>, <<99, 0>>, <<99, NowDay - 10>> }
LiqKinds == { <<0, 0>>, <<30, 0>>, <<0, 30>> }
OiKinds == { <<95, 0>>, <<90, 3>> }
\* dataA["4h"].adx14, dataA["1d"].ema50 and .ema200, dataA["4h"].ema50 and
\* .atrPct; atr() is 0 on fewer than 15 bars and on flat bars (edge-data.js,
\* lines 104-111 and 222)
TrendKinds == { <<21, 105, 100, 101, 120>>, <<20, 95, 100, 100, 0>> }
TimeKinds == { <<8, 20>>, <<9, 21>> }
SessionKinds == { <<NaN, NaN>>, <<130, 100>>, <<160, 100>> }
BandKinds == { <<0, 0, 0>>, <<98, 99, 97>>, <<102, 103, 101>>, <<100, 110, 90>> }
FailedKinds == { {}, {"A15m"}, {"A4h"}, {"A1d"}, {"C1h"} }

snapshotOf(hh, av, fz, lq, a15, oi, tr, tm, ses, roc, band, failed) ==
  [price |-> 100, HH20 |-> hh, avwapCycle |-> av[1], avwapAnchorDay |-> av[2],
   nowDay |-> NowDay, atr4h |-> tr[5], fundingZ |-> fz, long1h |-> lq[1],
   short1h |-> lq[2], atr15 |-> a15, oi30dPct |-> oi[1], oiDelta24h |-> oi[2],
   adx14 |-> tr[1], ema50d |-> tr[2], ema200d |-> tr[3], ema50_4h |-> tr[4],
   hr |-> tm[1], minute |-> tm[2], asia |-> ses[1], eu |-> ses[2], roc1h |-> roc,
   vwap |-> band[1], vwapUpper |-> band[2], vwapLower |-> band[3], failed |-> failed]

InitSignals ==
  /\ TicksIdle
  /\ fn = "evaluateSignals"
  /\ \E hh \in {0, 99, 100}, av \in AvwapKinds, fz \in {NaN, 250, -250}, lq \in LiqKinds,
        a15 \in {0, 40, 160}, oi \in OiKinds, tr \in TrendKinds, tm \in TimeKinds,
        ses \in SessionKinds, roc \in {-50, 0, 50}, band \in BandKinds,
        failed \in FailedKinds :
       args = snapshotOf(hh, av, fz, lq, a15, oi, tr, tm, ses, roc, band, failed)
  /\ ret = Null /\ done = FALSE

\* const { plays, checks } = evaluateSignals(dash), line 575
EvalSignals ==
  /\ fn = "evaluateSignals" /\ ~done
  /\ ret' = evaluateSignals(args)
  /\ done' = TRUE
  /\ UNCHANGED <<fn, args, cacheFile, clock, ticks, inv, sentLog, outcome, scope>>

SpecSignals == InitSignals /\ [][EvalSignals]_vars

evaluated == fn = "evaluateSignals" /\ done

checksOf(r, k) == { j \in 1..Len(r.checks) : r.checks[j].id = k }
playsOf(r, k) == { j \in 1..Len(r.plays) : r.plays[j].id = k }

\* rule k reported one outcome: one check, which is either SKIPPED with a
\* reason and no play of k, or DETECTED with exactly one play of k
reportsOutcome(r, k) ==
  /\ Cardinality(checksOf(r, k)) = 1
  /\ \A j \in checksOf(r, k) :
       \/ /\ r.checks[j].result = "SKIPPED"
          /\ Len(r.checks[j].reasons) >= 1
          /\ playsOf(r, k) = {}
       \/ /\ r.checks[j].result = "DETECTED"
          /\ Cardinality(playsOf(r, k)) = 1

\* C13, as stated: on every snapshot evaluateSignals records exactly one
\* check per catalogue rule (nine checks), and each rule either abstains
\* (SKIPPED, at least one reason, no play of that id) or emits exactly one
\* play of that id (DETECTED).
C13_EveryRuleReports ==
  evaluated =>
    /\ ~ret.threw
    /\ Len(ret.checks) = 9
    /\ \A k \in Rules : reportsOutcome(ret, k)

\* the same on the snapshots in which no section read by the rules failed
C13_EveryRuleReportsWhenComplete ==
  (evaluated /\ args.failed = {}) =>
    /\ ~ret.threw
    /\ Len(ret.checks) = 9
    /\ \A k \in Rules : reportsOutcome(ret, k)

\* a snapshot without dataA["15m"]: the call ends in rule #4
C13_Witness == evaluated /\ args.failed = {"A15m"} /\ ret.threw /\ ret.rule = 4

(***************************************************************************)
(* The snapshot builder: buildDashboardData (edge-data.js, lines 60-628).  *)
(* x is what the outside world does during one build: x.fails holds the    *)
(* fetches that fail, the other fields are the data the fetches return.    *)
(* A section of the result is modelled by what decides its content; the    *)
(* stress index is in units of 1/100.                                      *)
(***************************************************************************)
TFs == << "15m", "1h", "4h", "1d" >>
fetchA == [tf \in {"15m", "1h", "4h", "1d"} |-> "A" \o tf]
fetchC == [tf \in {"15m", "1h", "4h", "1d"} |-> "C" \o tf]
Fetches ==
  { fetchA[tf] : tf \in DOMAIN fetchA } \cup { fetchC[tf] : tf \in DOMAIN fetchC }
    \cup { "B", "D1", "D2", "F1", "F2", "G", "H" }

\* the block a fetch belongs to
sectionOf(f) ==
  IF f \in { fetchA[tf] : tf \in DOMAIN fetchA } THEN "A"
  ELSE IF f \in { fetchC[tf] : tf \in DOMAIN fetchC } THEN "C"
  ELSE IF f \in {"D1", "D2"} THEN "D"
  ELSE IF f \in {"F1", "F2"} THEN "F"
  ELSE f

\* lines 73-76
Result0 ==
  [dataA |-> {}, dataB |-> [null |-> TRUE], dataC |-> {},
   dataD |-> [sessionRelVol |-> FALSE, relative |-> "undefined"],
   dataE |-> [null |-> TRUE], dataF |-> [null |-> TRUE],
   dataG |-> [null |-> TRUE], dataH |-> [null |-> TRUE], errors |-> << >>]

\* result.errors.push(`X: ${e.message}`)
pushError(res, section, cause) ==
  [res EXCEPT !.errors = Append(@, [section |-> section, cause |-> cause])]

\* BLOCK A, lines 213-227, and BLOCK C, lines 267-275: one try per timeframe
RECURSIVE perTf(_, _, _, _, _)
perTf(res, x, k, fetch, field) ==
  IF k > Len(TFs) THEN res
  ELSE LET tf == TFs[k]
           next == IF fetch[tf] \in x.fails
                   THEN pushError(res, fetch[tf], "HTTP")
                   ELSE [res EXCEPT ![field] = @ \cup {tf}]
       IN perTf(next, x, k + 1, fetch, field)

blockA(res, x) == perTf(res, x, 1, fetchA, "dataA")
blockC(res, x) == perTf(res, x, 1, fetchC, "dataC")

\* BLOCK B, lines 230-264
blockB(res, x) ==
  IF "B" \in x.fails
  THEN [pushError(res, "B", "HTTP") EXCEPT
          !.dataB = [null |-> FALSE, fundingZ |-> NaN, oi30dPct |-> NaN,
                     long24h |-> NaN, short24h |-> NaN]]
  ELSE [res EXCEPT
          !.dataB = [null |-> FALSE, fundingZ |-> x.fundingZ, oi30dPct |-> x.oi30dPct,
                     long24h |-> x.long24h, short24h |-> x.short24h]]

\* BLOCK D, lines 278-321: sessionRelVol is stored after the first fetch,
\* relative after the last one
blockD(res, x) ==
  IF "D1" \in x.fails THEN pushError(res, "D", "HTTP")
  ELSE IF "D2" \in x.fails
  THEN [pushError(res, "D", "HTTP") EXCEPT !.dataD.sessionRelVol = TRUE]
  ELSE [res EXCEPT !.dataD = [sessionRelVol |-> TRUE, relative |-> x.relVol15]]

\* x || 0 on a value that may be null
orZero(v) == IF v = NaN THEN 0 ELSE v

\* BLOCK E, lines 324-338
blockE(res, x) ==
  LET B == res.dataB
      bias == Min(300, Abs(IF B.null THEN 0 ELSE orZero(B.fundingZ)))
      lev == Min(300, IF ~B.null /\ orZero(B.oi30dPct) # 0
                      THEN (B.oi30dPct - 50) * 10 ELSE 0)
      vFlag == res.dataD.relative
      vol == IF vFlag = "very high" THEN 200 ELSE IF vFlag = "high" THEN 100 ELSE 0
      imb == IF B.null THEN 0 ELSE Abs(orZero(B.long24h) - orZero(B.short24h))
      liqScore == Min(200, imb * 100)
      stress == bias + lev + vol + liqScore
  IN IF res.dataD.relative = "undefined"
     THEN pushError(res, "E", "TypeError")
     ELSE [res EXCEPT !.dataE = [null |-> FALSE, stressIndex |-> stress,
                                 highRisk |-> stress >= 500]]

\* BLOCK F, lines 341-601: dataF is assigned after the first fetches, the
\* levels after the last one
blockF(res, x) ==
  IF "F1" \in x.fails THEN pushError(res, "F", "HTTP")
  ELSE IF "F2" \in x.fails
  THEN [pushError(res, "F", "HTTP") EXCEPT !.dataF = [null |-> FALSE, levels |-> FALSE]]
  ELSE [res EXCEPT !.dataF = [null |-> FALSE, levels |-> TRUE]]

\* BLOCK G, lines 604-615
blockG(res, x) ==
  IF "G" \in x.fails THEN pushError(res, "G", "HTTP")
  ELSE [res EXCEPT !.dataG = [null |-> FALSE]]

\* BLOCK H, lines 618-625
blockH(res, x) ==
  IF "H" \in x.fails THEN pushError(res, "H", "HTTP")
  ELSE [res EXCEPT !.dataH = [null |-> FALSE]]

Blocks == << "A", "B", "C", "D", "E", "F", "G", "H" >>

blockOf(b, res, x) ==
  CASE b = "A" -> blockA(res, x) [] b = "B" -> blockB(res, x)
    [] b = "C" -> blockC(res, x) [] b = "D" -> blockD(res, x)
    [] b = "E" -> blockE(res, x) [] b = "F" -> blockF(res, x)
    [] b = "G" -> blockG(res, x) [] b = "H" -> blockH(res, x)

\* the blocks from the k-th on, in the order of the source
RECURSIVE buildFrom(_, _, _)
buildFrom(k, res, x) ==
  IF k > Len(Blocks) THEN res ELSE buildFrom(k + 1, blockOf(Blocks[k], res, x), x)

\* the result of the build in which the same data arrive and no fetch fails
nominal(x) == buildFrom(1, Result0, [x EXCEPT !.fails = {}])

MaxFailures == 2

InitBuild ==
  /\ TicksIdle
  /\ fn = "buildDashboardData"
  /\ args \in [fails : { F \in SUBSET Fetches : Cardinality(F) <= MaxFailures },
               fundingZ : {0, 250}, oi30dPct : {80}, long24h : {5}, short24h : {3},
               relVol15 : {"normal", "high"}]
  /\ ret = [pc |-> 1, result |-> Result0]
  /\ done = FALSE

\* the build is at block b and runs it
RunBlock(b) ==
  /\ fn = "buildDashboardData" /\ ~done
  /\ ret.pc <= Len(Blocks) /\ Blocks[ret.pc] = b
  /\ ret' = [pc |-> ret.pc + 1, result |-> blockOf(b, ret.result, args)]
  /\ UNCHANGED <<fn, args, done, cacheFile, clock, ticks, inv, sentLog, outcome, scope>>

BuildA == RunBlock("A")
BuildB == RunBlock("B")
BuildC == RunBlock("C")
BuildD == RunBlock("D")
BuildE == RunBlock("E")
BuildF == RunBlock("F")
BuildG == RunBlock("G")
BuildH == RunBlock("H")

\* return result, line 627
BuildReturn ==
  /\ fn = "buildDashboardData" /\ ~done
  /\ ret.pc > Len(Blocks)
  /\ done' = TRUE
  /\ UNCHANGED <<fn, args, ret, cacheFile, clock, ticks, inv, sentLog, outcome, scope>>

NextBuild ==
  \/ BuildA \/ BuildB \/ BuildC \/ BuildD \/ BuildE \/ BuildF \/ BuildG \/ BuildH
  \/ BuildReturn

SpecBuild == InitBuild /\ [][NextBuild]_vars

built == fn = "buildDashboardData" /\ done

Sections == { "A", "B", "C", "D", "E", "F", "G", "H" }
failedSections == { sectionOf(f) : f \in args.fails }

\* what a section contributed to the result
outputOf(res, sec) ==
  CASE sec = "A" -> [out |-> res.dataA] [] sec = "B" -> [out |-> res.dataB]
    [] sec = "C" -> [out |-> res.dataC] [] sec = "D" -> [out |-> res.dataD]
    [] sec = "E" -> [out |-> res.dataE] [] sec = "F" -> [out |-> res.dataF]
    [] sec = "G" -> [out |-> res.dataG] [] sec = "H" -> [out |-> res.dataH]

errorsOf(res, sec) ==
  { j \in 1..Len(res.errors) : sectionOf(res.errors[j].section) = sec }

\* every failed fetch is logged under its section with its cause
failuresLogged ==
  \A f \in args.fails :
    \E j \in errorsOf(ret.result, sectionOf(f)) : ret.result.errors[j].cause = "HTTP"

\* section sec came out as in the build without failures
untouched(sec) ==
  /\ outputOf(ret.result, sec) = outputOf(nominal(args), sec)
  /\ errorsOf(ret.result, sec) = {}

\* C14, as stated: when retrieval for a section fails, the error is logged
\* with the section's name and the cause, the build still returns, and every
\* other section gives the output it would have given without the failure.
C14_FailureIsolated ==
  built => /\ failuresLogged
           /\ \A sec \in Sections \ failedSections : untouched(sec)

\* what holds: failures are logged, and every section without a failed
\* fetch other than E is untouched; E is untouched when neither B nor D
\* failed
C14_FailureIsolatedButE ==
  built => /\ failuresLogged
           /\ \A sec \in Sections \ (failedSections \cup {"E"}) : untouched(sec)
           /\ failedSections \cap {"B", "D"} = {} => untouched("E")

\* only a fetch of block D failed; block E has thrown and dataE is null
C14_Witness ==
  /\ built
  /\ failedSections = {"D"}
  /\ ret.result.dataE.null
  /\ errorsOf(ret.result, "E") # {}

(***************************************************************************)
(* The VWAP bands of the session and of the week (edge-data.js, lines      *)
(* 381-425).  A bar is [px4, vol]: px4 is open + high + low + close, so    *)
(* the bar's price is px4 / 4.  With V the sum of vol, P4 of px4 * vol and *)
(* Q16 of px4 * px4 * vol, the VWAP is P4 / (4 V) and sigma is             *)
(* sqrt(Q16 * V - P4 * P4) / (4 V).  The bands are returned in cents, as   *)
(* toFixed(2) rounds them, and are computed here by exact comparisons of   *)
(* 400 V y = 100 P4 +/- 50 kappa sqrt(W4), where kappa / 2 is the number   *)
(* of sigmas.                                                              *)
(***************************************************************************)
\* vSum, pvSum and pv2 of lines 385-393, from the k-th bar on
RECURSIVE sums(_, _)
sums(bars, k) ==
  IF k > Len(bars) THEN [V |-> 0, P4 |-> 0, Q16 |-> 0]
  ELSE LET b == bars[k]
           rest == sums(bars, k + 1)
       IN [V |-> b.vol + rest.V, P4 |-> b.px4 * b.vol + rest.P4,
           Q16 |-> b.px4 * b.px4 * b.vol + rest.Q16]

\* Math.max(pv2/vSum - vwap*vwap, 0), line 395, times 16 V * V
varianceW4(V, P4, Q16) == Max(Q16 * V - P4 * P4, 0)

\* 100 P4 + sign * 50 kappa sqrt(W4) >= t
scaledGE(P4, W4, sign, kappa, t) ==
  IF sign > 0
  THEN t - 100 * P4 <= 0 \/ 2500 * kappa * kappa * W4 >= (t - 100 * P4) * (t - 100 * P4)
  ELSE 100 * P4 - t >= 0 /\ (100 * P4 - t) * (100 * P4 - t) >= 2500 * kappa * kappa * W4

\* 100 P4 + sign * 50 kappa sqrt(W4) <= t
scaledLE(P4, W4, sign, kappa, t) ==
  IF sign > 0
  THEN t - 100 * P4 >= 0 /\ 2500 * kappa * kappa * W4 <= (t - 100 * P4) * (t - 100 * P4)
  ELSE 100 * P4 - t <= 0 \/ (100 * P4 - t) * (100 * P4 - t) <= 2500 * kappa * kappa * W4

CentRange == 0..1000

\* +(vwap + sign * (kappa / 2) * sigma).toFixed(2), in cents: the nearest
\* cent, a half going away from zero
toFixed2(V, P4, W4, sign, kappa) ==
  IF scaledGE(P4, W4, sign, kappa, 0)
  THEN CHOOSE n \in CentRange :
         /\ scaledGE(P4, W4, sign, kappa, (4 * n - 2) * V)
         /\ ~scaledGE(P4, W4, sign, kappa, (4 * n + 2) * V)
  ELSE 0 - (CHOOSE n \in CentRange :
              /\ scaledLE(P4, W4, sign, kappa, 0 - (4 * n - 2) * V)
              /\ ~scaledLE(P4, W4, sign, kappa, 0 - (4 * n + 2) * V))

\* lines 385-401 (session) and 409-425 (week); last is the latest trade
\* price in cents, k15 is twice the multiple of sigma of the middle band
bandsWith(bars, last, k15) ==
  LET V == sums(bars, 1).V
      P4 == sums(bars, 1).P4
      W4 == varianceW4(V, P4, sums(bars, 1).Q16)
  IN IF V = 0
     THEN [vwap |-> last, upper1 |-> last, lower1 |-> last, upper1_5 |-> last,
           lower1_5 |-> last, upper2 |-> last, lower2 |-> last]
     ELSE [vwap |-> toFixed2(V, P4, W4, 1, 0),
           upper1 |-> toFixed2(V, P4, W4, 1, 2), lower1 |-> toFixed2(V, P4, W4, -1, 2),
           upper1_5 |-> toFixed2(V, P4, W4, 1, k15),
           lower1_5 |-> toFixed2(V, P4, W4, -1, k15),
           upper2 |-> toFixed2(V, P4, W4, 1, 4), lower2 |-> toFixed2(V, P4, W4, -1, 4)]

\* the middle band drawn at 2.5 sigma
vwapBands_wide(bars, last) == bandsWith(bars, last, 5)

vwapBands(bars, last) == bandsWith(bars, last, 3)

MaxBars == 3
VwapBarKinds == [px4 : {4, 6, 20}, vol : {0, 1, 2}]
RECURSIVE VwapBarsOfLen(_)
VwapBarsOfLen(n) ==
  IF n = 0 THEN { << >> }
  ELSE { Append(b, k) : b \in VwapBarsOfLen(n - 1), k \in VwapBarKinds }
VwapBars(m) == UNION { VwapBarsOfLen(n) : n \in 0..m }

InitBands ==
  /\ TicksIdle
  /\ fn \in {"sessionVwap", "weeklyVwap"}
  /\ args \in [bars : VwapBars(MaxBars), last : {150, 225}]
  /\ ret = Null /\ done = FALSE

\* lines 382-401
EvalSessionBands ==
  /\ fn = "sessionVwap" /\ ~done
  /\ ret' = vwapBands(args.bars, args.last)
  /\ done' = TRUE
  /\ UNCHANGED <<fn, args, cacheFile, clock, ticks, inv, sentLog, outcome, scope>>

\* lines 404-425
EvalWeeklyBands ==
  /\ fn = "weeklyVwap" /\ ~done
  /\ ret' = vwapBands(args.bars, args.last)
  /\ done' = TRUE
  /\ UNCHANGED <<fn, args, cacheFile, clock, ticks, inv, sentLog, outcome, scope>>

NextBands == EvalSessionBands \/ EvalWeeklyBands

SpecBands == InitBands /\ [][NextBands]_vars

banded == fn \in {"sessionVwap", "weeklyVwap"} /\ done

\* C15: for every bar window, one of zero total volume included, the
\* session and weekly bands are ordered: lower 2 sigma <= lower 1.5 sigma <=
\* lower 1 sigma <= vwap <= upper 1 sigma <= upper 1.5 sigma <= upper 2 sigma.
C15_BandsOrdered ==
  banded =>
    /\ ret.lower2 <= ret.lower1_5 /\ ret.lower1_5 <= ret.lower1
    /\ ret.lower1 <= ret.vwap /\ ret.vwap <= ret.upper1
    /\ ret.upper1 <= ret.upper1_5 /\ ret.upper1_5 <= ret.upper2

\* a window with volume whose seven bands are all different, the lowest
\* below zero
C15_Witness ==
  /\ banded
  /\ sums(args.bars, 1).V > 0
  /\ ret.lower2 < 0 /\ ret.lower2 < ret.lower1_5 /\ ret.lower1_5 < ret.lower1
  /\ ret.lower1 < ret.vwap /\ ret.vwap < ret.upper1
  /\ ret.upper1 < ret.upper1_5 /\ ret.upper1_5 < ret.upper2

(***************************************************************************)
(* The indicators: sma, ema, rsi, atr (edge-data.js, lines 84-111) and adx *)
(* (lines 123-150).  A number is an exact fraction [n, d] with d > 0 in    *)
(* lowest terms; a series is a sequence of whole numbers, the code's index *)
(* i being position i + 1.                                                 *)
(***************************************************************************)
RECURSIVE gcd(_, _)
gcd(a, b) == IF b = 0 THEN a ELSE gcd(b, a % b)

frac(n, d) ==
  LET g == gcd(Abs(n), Abs(d))
      sg == IF d < 0 THEN -1 ELSE 1
  IN [n |-> sg * (n \div g), d |-> sg * (d \div g)]
whole(k) == [n |-> k, d |-> 1]

\* what is not a finite number (NaN and the infinities, not told apart) has
\* the denominator 0 and is passed on by the arithmetic
NotFinite == [n |-> 0, d |-> 0]
finite(x) == x.d # 0
qAdd(x, y) ==
  IF finite(x) /\ finite(y) THEN frac(x.n * y.d + y.n * x.d, x.d * y.d) ELSE NotFinite
qSub(x, y) ==
  IF finite(x) /\ finite(y) THEN frac(x.n * y.d - y.n * x.d, x.d * y.d) ELSE NotFinite
qMul(x, y) ==
  IF finite(x) /\ finite(y) THEN frac(x.n * y.n, x.d * y.d) ELSE NotFinite
qDiv(x, y) ==
  IF finite(x) /\ finite(y) /\ y.n # 0 THEN frac(x.n * y.d, x.d * y.n) ELSE NotFinite
qAbs(x) == [n |-> Abs(x.n), d |-> x.d]
qMax(x, y) == IF x.n * y.d >= y.n * x.d THEN x ELSE y
qLe(x, y) == x.n * y.d <= y.n * x.d

\* a.slice(from, to): the code's indices from .. to - 1
slice(a, from, to) == SubSeq(a, Max(from, 0) + 1, Min(to, Len(a)))

RECURSIVE total(_)
total(a) == IF a = << >> THEN whole(0) ELSE qAdd(a[1], total(Tail(a)))

asFracs(a) == [k \in 1..Len(a) |-> whole(a[k])]

\* line 84: the sum of the last p values, divided by p
sma(a, p) == qDiv(total(slice(a, Len(a) - p, Len(a))), whole(p))

\* lines 85-91
RECURSIVE emaFrom(_, _, _, _)
emaFrom(e, a, i, p) ==
  IF i >= Len(a) THEN e
  ELSE LET k == frac(2, p + 1)
           next == qAdd(qMul(at(a, i), k), qMul(e, qSub(whole(1), k)))
       IN \* e is assigned before the next pass
          IF next.d > 0 THEN emaFrom(next, a, i + 1, p) ELSE e
ema(a, p) ==
  IF Len(a) < p THEN whole(0) ELSE emaFrom(sma(slice(a, 0, p), p), a, p, p)

\* lines 92-103
RECURSIVE rsiSeed(_, _, _, _)
rsiSeed(acc, a, i, p) ==
  IF i > p THEN acc
  ELSE LET d == qSub(at(a, i), at(a, i - 1))
           next == IF d.n >= 0 THEN [acc EXCEPT !.up = qAdd(@, d)]
                   ELSE [acc EXCEPT !.dn = qSub(@, d)]
       IN \* up and dn are assigned before the next pass
          IF next.up.d > 0 /\ next.dn.d > 0 THEN rsiSeed(next, a, i + 1, p) ELSE acc
RECURSIVE rsiWalk(_, _, _, _)
rsiWalk(acc, a, i, p) ==
  IF i >= Len(a) THEN acc
  ELSE LET d == qSub(at(a, i), at(a, i - 1))
           au == qDiv(qAdd(qMul(acc.au, whole(p - 1)), qMax(d, whole(0))), whole(p))
           ad == qDiv(qAdd(qMul(acc.ad, whole(p - 1)), qMax(qSub(whole(0), d), whole(0))),
                      whole(p))
       IN \* au and ad are assigned before the next pass
          IF au.d > 0 /\ ad.d > 0 THEN rsiWalk([au |-> au, ad |-> ad], a, i + 1, p) ELSE acc
\* RSI's value for a series without losses returned for a short series too
rsiShort_hundred == whole(100)

\* the value returned for a series with fewer than p + 1 values, line 93
rsiShort == whole(0)
rsi(a, p) ==
  IF Len(a) < p + 1 THEN rsiShort
  ELSE LET seed == rsiSeed([up |-> whole(0), dn |-> whole(0)], a, 1, p)
           w == rsiWalk([au |-> qDiv(seed.up, whole(p)), ad |-> qDiv(seed.dn, whole(p))],
                        a, p + 1, p)
       IN IF w.ad.n # 0
          THEN qSub(whole(100), qDiv(whole(100), qAdd(whole(1), qDiv(w.au, w.ad))))
          ELSE whole(100)

\* the true ranges of lines 107-109 and 130, for i = 1 .. length - 1
trueRanges(h, l, c) ==
  [k \in 1..(Len(h) - 1) |->
     qMax(qSub(h[k + 1], l[k + 1]),
          qMax(qAbs(qSub(h[k + 1], c[k])), qAbs(qSub(l[k + 1], c[k]))))]

\* lines 104-111
atr(h, l, c, p) ==
  IF Len(h) < p + 1 THEN whole(0) ELSE sma(trueRanges(h, l, c), p)

\* lines 126-129: the directional movements, for i = 1 .. length - 1
dmPlusOf(h, l) ==
  [k \in 1..(Len(h) - 1) |->
     LET up == qSub(h[k + 1], h[k])
         dn == qSub(l[k], l[k + 1])
     IN IF ~qLe(up, dn) /\ up.n > 0 THEN up ELSE whole(0)]
dmMinusOf(h, l) ==
  [k \in 1..(Len(h) - 1) |->
     LET up == qSub(h[k + 1], h[k])
         dn == qSub(l[k], l[k + 1])
     IN IF ~qLe(dn, up) /\ dn.n > 0 THEN dn ELSE whole(0)]

\* lines 132-140
RECURSIVE smoothFrom(_, _, _, _)
smoothFrom(res, arr, i, p) ==
  IF i >= Len(arr) THEN res
  ELSE LET prev == res[Len(res)]
       IN smoothFrom(Append(res, qAdd(qSub(prev, qDiv(prev, whole(p))), at(arr, i))),
                     arr, i + 1, p)
smooth(arr, p) == smoothFrom(<< sma(slice(arr, 0, p), p) >>, arr, p, p)

\* x || 1
orOne(x) == IF x.n = 0 THEN whole(1) ELSE x

\* lines 143-148
dxOf(plus14, minus14, tr14) ==
  [k \in 1..Len(plus14) |->
     LET plusDI == qMul(qDiv(plus14[k], orOne(tr14[k])), whole(100))
         minusDI == qMul(qDiv(minus14[k], orOne(tr14[k])), whole(100))
     IN qMul(qDiv(qAbs(qSub(plusDI, minusDI)), orOne(qAdd(plusDI, minusDI))), whole(100))]

\* +x.toFixed(2) of a fraction that is not negative: the nearest 1/100, a
\* half going up
toCents(x) == frac((200 * x.n + x.d) \div (2 * x.d), 100)

\* the mean of the last p values of dx taken without the division by p
adxMean_undivided(dx, p) == total(slice(dx, Len(dx) - p, Len(dx)))

\* sma(dx.slice(Math.max(0, dx.length - p)), p), line 149
adxMean(dx, p) == sma(slice(dx, Len(dx) - p, Len(dx)), p)

\* lines 123-150
adx(h, l, c, p) ==
  IF Len(h) < p + 1 THEN whole(0)
  ELSE LET tr14 == smooth(trueRanges(h, l, c), p)
           plus14 == smooth(dmPlusOf(h, l), p)
           minus14 == smooth(dmMinusOf(h, l), p)
       IN toCents(adxMean(dxOf(plus14, minus14, tr14), p))

MaxPeriod == 3
MaxCloses == 6
MaxCandles == 5
Periods == 1..MaxPeriod

CloseLevels == {1, 2, 3}
Closes(m) == UNION { [1..n -> CloseLevels] : n \in 0..m }

\* candles <<high, low, close>>; the first has no range
CandleKinds == { <<2, 2, 2>>, <<3, 1, 2>>, <<3, 2, 3>>, <<2, 1, 1>> }
Candles(m) == UNION { [1..n -> CandleKinds] : n \in 0..m }

column(candles, j) == [k \in 1..Len(candles) |-> whole(candles[k][j])]

InitIndicators ==
  /\ TicksIdle
  /\ \/ fn \in {"ema", "rsi"} /\ args \in [a : Closes(MaxCloses), p : Periods]
     \/ fn \in {"atr", "adx"} /\ args \in [candles : Candles(MaxCandles), p : Periods]
  /\ ret = Null /\ done = FALSE

\* ema(c, 50), ema(c, 200), lines 219-220
EvalEma ==
  /\ fn = "ema" /\ ~done
  /\ ret' = ema(asFracs(args.a), args.p)
  /\ done' = TRUE
  /\ UNCHANGED <<fn, args, cacheFile, clock, ticks, inv, sentLog, outcome, scope>>

\* rsi(c, 14), line 221
EvalRsi ==
  /\ fn = "rsi" /\ ~done
  /\ ret' = rsi(asFracs(args.a), args.p)
  /\ done' = TRUE
  /\ UNCHANGED <<fn, args, cacheFile, clock, ticks, inv, sentLog, outcome, scope>>

\* atr(h, l, c, 14), line 222
EvalAtr ==
  /\ fn = "atr" /\ ~done
  /\ ret' = atr(column(args.candles, 1), column(args.candles, 2),
                column(args.candles, 3), args.p)
  /\ done' = TRUE
  /\ UNCHANGED <<fn, args, cacheFile, clock, ticks, inv, sentLog, outcome, scope>>

\* adx(h, l, c, 14), line 225
EvalAdx ==
  /\ fn = "adx" /\ ~done
  /\ ret' = adx(column(args.candles, 1), column(args.candles, 2),
                column(args.candles, 3), args.p)
  /\ done' = TRUE
  /\ UNCHANGED <<fn, args, cacheFile, clock, ticks, inv, sentLog, outcome, scope>>

NextIndicators == EvalEma \/ EvalRsi \/ EvalAtr \/ EvalAdx

SpecIndicators == InitIndicators /\ [][NextIndicators]_vars

\* ema, rsi or atr has returned on a series shorter than the period
shortSeries ==
  /\ done
  /\ \/ fn \in {"ema", "rsi"} /\ Len(args.a) < args.p
     \/ fn = "atr" /\ Len(args.candles) < args.p

\* C16, as stated: on every series shorter than the period p, ema and atr
\* return 0 and rsi returns 100, and none of them throws.
C16_ShortSeriesDegenerate ==
  shortSeries => ret = IF fn = "rsi" THEN whole(100) ELSE whole(0)

\* C16, amended: on every series shorter than the period p, ema, rsi and
\* atr all return 0 (rsi returns 100 only on a series of at least p + 1
\* values without a loss), and none of them throws.
C16_ShortSeriesZero ==
  /\ shortSeries => ret = whole(0)
  /\ (fn = "rsi" /\ done /\ ret = whole(100)) => Len(args.a) >= args.p + 1

\* rsi called with period 3 on a series of two values
C16_Witness ==
  /\ shortSeries /\ fn = "rsi"
  /\ args.p = MaxPeriod /\ Len(args.a) = MaxPeriod - 1
  /\ ret = whole(0)

\* adx has returned
adxDone == done /\ fn = "adx"

\* some bar after the first has a true range of zero
zeroTrueRange(candles) ==
  \E k \in 1..(Len(candles) - 1) :
    trueRanges(column(candles, 1), column(candles, 2), column(candles, 3))[k].n = 0

\* C17: the value adx returns is at least 0 and at most 100, for every
\* high/low/close series of any length, series shorter than twice the period
\* and series with a zero true range included.
C17_AdxBounded ==
  adxDone => qLe(whole(0), ret) /\ qLe(ret, whole(100))

\* adx computed a non-zero value on a series that passes the length guard,
\* is shorter than twice the period and holds a bar of zero true range
C17_Witness ==
  /\ adxDone
  /\ Len(args.candles) >= args.p + 1
  /\ Len(args.candles) < 2 * args.p
  /\ zeroTrueRange(args.candles)
  /\ ret.n > 0

(***************************************************************************)
(* alert.js, computeQualityScore: the crowd sub-factor (lines 162-171).    *)
(* relVol is dataD.relative["15m"], or "missing" when block D stored no    *)
(* relative map; fundingZ is parseFloat(dataB.fundingZ), NaN for null;     *)
(* liq is dataB.liquidations with long1h and short1h, NaN when absent.     *)
(***************************************************************************)
\* relVol==="high"||relVol==="very high", line 163
volHighOf(relVol) == relVol \in {"high", "very high"}

\* line 169; a comparison with NaN is false
fundOpp(dir, fundingZ) ==
  IF dir = "BREAK" THEN FALSE
  ELSE IF fundingZ = NaN THEN FALSE
  ELSE IF dir = "LONG" THEN fundingZ < 0 ELSE fundingZ > 0

\* line 170 without the test on isBreak
liqBias_ungated(dir, liq) ==
  IF dir = "LONG" THEN orZero(liq.short1h) > orZero(liq.long1h)
  ELSE orZero(liq.long1h) > orZero(liq.short1h)

\* line 170
liqBias(dir, liq) ==
  IF dir = "BREAK" THEN FALSE
  ELSE IF dir = "LONG" THEN orZero(liq.short1h) > orZero(liq.long1h)
  ELSE orZero(liq.long1h) > orZero(liq.short1h)

\* lines 163-171; reading relative["15m"] of a missing map throws
crowdOf(dir, relVol, fundingZ, liq) ==
  IF relVol = "missing" THEN [threw |-> TRUE, crowd |-> 0]
  ELSE LET volHigh == volHighOf(relVol)
           fo == fundOpp(dir, fundingZ)
           lb == liqBias(dir, liq)
       IN [threw |-> FALSE,
           crowd |-> IF volHigh /\ fo /\ lb THEN 2
                     ELSE IF (volHigh /\ fo) \/ (fo /\ lb) \/ (volHigh /\ lb) THEN 1
                     ELSE 0]

Dirs == {"LONG", "SHORT", "BREAK"}
RelVols == {"missing", "undefined", "low", "normal", "high", "very high"}
FundingZs == {NaN, -1, 0, 1}
LiqSides == {NaN, 0, 1, 2}

InitCrowd ==
  /\ TicksIdle
  /\ fn = "crowd"
  /\ args \in [dir : Dirs, relVol : RelVols, fundingZ : FundingZs,
                liq : [long1h : LiqSides, short1h : LiqSides]]
  /\ ret = Null /\ done = FALSE

EvalCrowd ==
  /\ fn = "crowd" /\ ~done
  /\ ret' = crowdOf(args.dir, args.relVol, args.fundingZ, args.liq)
  /\ done' = TRUE
  /\ UNCHANGED <<fn, args, cacheFile, clock, ticks, inv, sentLog, outcome, scope>>

SpecCrowd == InitCrowd /\ [][EvalCrowd]_vars

\* the crowd sub-factor of a play has been computed
crowdDone == fn = "crowd" /\ done /\ ~ret.threw

\* C18: the crowd sub-factor of a BREAK play is 0 for every snapshot,
\* whatever the relative volume, the funding z-score and the liquidation
\* imbalance.
C18_BreakCrowdZero ==
  (crowdDone /\ args.dir = "BREAK") => ret.crowd = 0

\* a BREAK play scored on high volume, a funding bias and a liquidation
\* imbalance, which would give a directional play a crowd of 1 or 2
C18_Witness ==
  /\ crowdDone /\ args.dir = "BREAK"
  /\ volHighOf(args.relVol)
  /\ args.fundingZ \notin {NaN, 0}
  /\ orZero(args.liq.long1h) # orZero(args.liq.short1h)
  /\ ret.crowd = 0
  /\ crowdOf("LONG", args.relVol, -1, [long1h |-> 0, short1h |-> 1]).crowd = 2

(***************************************************************************)
(* zigzagPivots bar by bar (edge-data.js, lines 184-202): the legs of the  *)
(* walk and the reversals from their running extremes.                     *)
(***************************************************************************)
\* the variables of the loop once the bars 0 .. n - 1 have been walked
walked(prices, n, thr) ==
  zzWalk([pivots |-> <<>>, dir |-> 0, lastExtreme |-> at(prices, 0), lastExtremeIdx |-> 0],
         SubSeq(prices, 1, n), 1, thr)

\* the bar at which the leg that bar i meets began: the last bar before i
\* that changed dir, or bar 0
legStart(prices, i, thr) ==
  LET flips == { j \in 1..(i - 1) :
                   walked(prices, j, thr).dir # walked(prices, j + 1, thr).dir }
  IN IF flips = {} THEN 0 ELSE CHOOSE j \in flips : \A k \in flips : k <= j

\* the running high and low of the bars from .. to
runningHigh(prices, from, to) ==
  CHOOSE x \in { at(prices, j) : j \in from..to } :
    \A j \in from..to : x >= at(prices, j)
runningLow(prices, from, to) ==
  CHOOSE x \in { at(prices, j) : j \in from..to } :
    \A j \in from..to : x <= at(prices, j)

\* bar i confirmed a pivot at a bar of the leg where the price is extreme,
\* turned the leg to newDir, and the pivot is among those returned
confirmedAt(prices, i, thr, extreme, newDir, out) ==
  LET before == walked(prices, i, thr)
      after == walked(prices, i + 1, thr)
  IN /\ after.dir = newDir
     /\ Len(after.pivots) = Len(before.pivots) + 1
     /\ LET q == after.pivots[Len(after.pivots)]
        IN /\ q.price = extreme
           /\ q.idx \in legStart(prices, i, thr)..i
           /\ \E k \in 1..Len(out) : out[k] = q

\* bar i met a leg of direction dir: a fall of thr or more from the running
\* high of an up or unknown leg, or a rise of thr or more from the running
\* low of a down or unknown leg, is confirmed
reversalConfirmed(prices, i, thr, out) ==
  LET dir == walked(prices, i, thr).dir
      p == at(prices, i)
      s == legStart(prices, i, thr)
      H == runningHigh(prices, s, i)
      L == runningLow(prices, s, i)
      falls == dir >= 0 /\ reverses(H - p, H, thr)
      rises == dir <= 0 /\ reverses(p - L, L, thr)
  IN (falls \/ rises) =>
       \/ falls /\ confirmedAt(prices, i, thr, H, -1, out)
       \/ rises /\ confirmedAt(prices, i, thr, L, 1, out)

zigzagDone == fn = "zigzagPivots" /\ done

\* C19, as stated: for any price series, at every bar where the price has
\* reversed by pct or more from the running extreme of the current leg (over
\* one bar or several, the leg of unknown direction at the start included),
\* zigzagPivots confirms a pivot at the index of that extreme and flips the
\* direction of the leg.
C19_ReversalConfirmed ==
  zigzagDone =>
    \A i \in 1..(Len(args.prices) - 1) :
      reversalConfirmed(args.prices, i, Max(args.pct, 1), ret)

\* the same for the legs whose direction is known, that is after the first
\* confirmed pivot
C19_ReversalConfirmedOnceDirected ==
  zigzagDone =>
    \A i \in 1..(Len(args.prices) - 1) :
      walked(args.prices, i, Max(args.pct, 1)).dir # 0
        => reversalConfirmed(args.prices, i, Max(args.pct, 1), ret)

\* a reversal gathered over two bars of a leg whose direction is known
C19_DirectedWitness ==
  /\ zigzagDone
  /\ \E i \in 2..(Len(args.prices) - 1) :
       LET thr == Max(args.pct, 1)
           before == walked(args.prices, i, thr)
       IN /\ before.dir = -1
          /\ legStart(args.prices, i, thr) < i - 1
          /\ ~reverses(at(args.prices, i) - at(args.prices, i - 1), at(args.prices, i - 1), thr)
          /\ walked(args.prices, i + 1, thr).dir = 1

(***************************************************************************)
(* The slope bounds of the line fitters.  part_001 declares them (lines    *)
(* 74-75) and pickEnvelopeLine applies them (lines 431-477);               *)
(* pickPrimarySupport and pickPrimaryResistance (edge-data.js, lines       *)
(* 448-512) compute the slope and compare it with nothing but best.slope.  *)
(* A slope is a price difference dP over an index difference dI, with the  *)
(* price in units of 1/perDollar dollars.                                  *)
(***************************************************************************)
SLOPE_MIN_USD_PER_DAY == 2    \* 0.02, in hundredths
SLOPE_MAX_USD_PER_DAY == 800

\* absSlope < SLOPE_MIN, absSlope > SLOPE_MAX, line 443
tooFlat(dP, dI, perDollar) == Abs(dP) * 100 < SLOPE_MIN_USD_PER_DAY * perDollar * dI
tooSteep(dP, dI, perDollar) == Abs(dP) > SLOPE_MAX_USD_PER_DAY * perDollar * dI

\* C20, as stated: every line the trendline fitter returns has |slope|
\* within [minSlope, maxSlope]; a pair of pivots whose |slope| is outside the
\* bounds, near-horizontal or absurdly steep, is never selected.
C20_SlopeWithinBounds ==
  fitted =>
    LET dP == args[ret[2]].price - args[ret[1]].price
        dI == args[ret[2]].idx - args[ret[1]].idx
    IN ~tooFlat(dP, dI, 1) /\ ~tooSteep(dP, dI, 1)

(***************************************************************************)
(* part_001, pickEnvelopeLine (lines 421-477), on the fractal swings of a  *)
(* daily series (lines 408-418).  The side "high" reads highs1d and the    *)
(* swing highs only, the side "low" lows1d and the swing lows, so the      *)
(* argument is the one series the side reads.  Prices are in units of two  *)
(* cents.                                                                  *)
(***************************************************************************)
PerDollar == 50
SWING_MIN_RECENT_BARS == 7
SWING_TOLERANCE_PCT == 6      \* 0.006, in thousandths
SWING_MAX_VIOLATIONS == 2

\* swingHighsW, swingLowsW, lines 417-418
swingsW(series, side) ==
  LET sw == fractalSwings(series, series)
      all == IF side = "high" THEN sw.swingHighs ELSE sw.swingLows
      windowStart == Max(0, Len(series) - SWING_LOOKBACK_DAYS)
  IN SelectSeq(all, LAMBDA q : q.idx >= windowStart)

\* (slope * k + intercept) * (B.idx - A.idx), lines 445 and 449
linePriceAt(A, B, k) == A.price * (B.idx - A.idx) + (B.price - A.price) * (k - A.idx)

\* lines 450-460: bar k pierces the line by more than the tolerance
pierces(side, series, A, B, k) ==
  IF side = "high"
  THEN at(series, k) * 1000 * (B.idx - A.idx)
         > linePriceAt(A, B, k) * (1000 + SWING_TOLERANCE_PCT)
  ELSE at(series, k) * 1000 * (B.idx - A.idx)
         < linePriceAt(A, B, k) * (1000 - SWING_TOLERANCE_PCT)

\* the count of lines 447-461
violationsOf(side, series, A, B) ==
  LET windowStart == Max(0, Len(series) - SWING_LOOKBACK_DAYS)
  IN Cardinality({ k \in windowStart..(Len(series) - 1) : pierces(side, series, A, B, k) })

\* the pairs that reach the comparison with best, with and without line 443
envelopeCandidates_unbounded(side, series, pv) ==
  LET windowStart == Max(0, Len(series) - SWING_LOOKBACK_DAYS)
      minRecent == Len(series) - SWING_MIN_RECENT_BARS
  IN { c \in (1..Len(pv)) \X (1..Len(pv)) :
         /\ c[1] < c[2]
         /\ ~(pv[c[1]].idx < windowStart \/ pv[c[2]].idx < windowStart)
         /\ ~(pv[c[1]].idx < minRecent /\ pv[c[2]].idx < minRecent)
         /\ ~(violationsOf(side, series, pv[c[1]], pv[c[2]]) > SWING_MAX_VIOLATIONS) }

\* lines 436-462
envelopeCandidates(side, series, pv) ==
  LET windowStart == Max(0, Len(series) - SWING_LOOKBACK_DAYS)
      minRecent == Len(series) - SWING_MIN_RECENT_BARS
  IN { c \in (1..Len(pv)) \X (1..Len(pv)) :
         /\ c[1] < c[2]
         /\ ~(pv[c[1]].idx < windowStart \/ pv[c[2]].idx < windowStart)
         /\ ~(pv[c[1]].idx < minRecent /\ pv[c[2]].idx < minRecent)
         /\ ~(\/ tooFlat(pv[c[2]].price - pv[c[1]].price, pv[c[2]].idx - pv[c[1]].idx, PerDollar)
              \/ tooSteep(pv[c[2]].price - pv[c[1]].price, pv[c[2]].idx - pv[c[1]].idx, PerDollar))
         /\ ~(violationsOf(side, series, pv[c[1]], pv[c[2]]) > SWING_MAX_VIOLATIONS) }

\* projToday of c < projToday of e, line 464
projectsBelow(series, pv, c, e) ==
  linePriceAt(pv[c[1]], pv[c[2]], Len(series) - 1) * (pv[e[2]].idx - pv[e[1]].idx)
    < linePriceAt(pv[e[1]], pv[e[2]], Len(series) - 1) * (pv[c[2]].idx - pv[c[1]].idx)

\* line 467: c replaces best = e
replaces(side, series, pv, c, e) ==
  IF side = "high" THEN projectsBelow(series, pv, c, e) ELSE projectsBelow(series, pv, e, c)

\* +x.toFixed(k) of num / den, as a count of 10^-k: [whole, part / unit];
\* the nearest, which is never a tie for den = 1, 2 or 3 times PerDollar
toFixedOf(num, den, unit) ==
  LET w == num \div den
      r == num - w * den
      part == (2 * r * unit + den) \div (2 * den)
  IN IF part = unit THEN [whole |-> w + 1, part |-> 0] ELSE [whole |-> w, part |-> part]

\* lines 473-476: the slope in dollars a bar to 6 decimals, the intercept in
\* dollars to 2
envelopeLine(A, B) ==
  LET dP == B.price - A.price
      dI == B.idx - A.idx
  IN [slope |-> toFixedOf(dP, PerDollar * dI, 1000000),
      intercept |-> toFixedOf(A.price * dI - dP * A.idx, PerDollar * dI, 100)]

\* lines 431-477
pickEnvelopeLine(series, side) ==
  LET pv == swingsW(series, side)
      C == envelopeCandidates(side, series, pv)
  IN IF Len(pv) < 2 \/ C = {} THEN Null
     ELSE LET best == CHOOSE c \in C :
                        \A e \in C \ {c} :
                          IF earlier(e, c) THEN replaces(side, series, pv, c, e)
                          ELSE ~replaces(side, series, pv, e, c)
          IN envelopeLine(pv[best[1]], pv[best[2]])

MaxDays == 8
\* $100.00, $100.04, $104.00 and $3500.00
DayLevels == {5000, 5002, 5200, 175000}
DaySeries(m) == UNION { [1..n -> DayLevels] : n \in 0..m }

InitEnvelope ==
  /\ TicksIdle
  /\ fn \in {"upperEnvelope", "lowerEnvelope"}
  /\ args \in DaySeries(MaxDays)
  /\ ret = Null /\ done = FALSE

\* line 506
EvalUpperEnvelope ==
  /\ fn = "upperEnvelope" /\ ~done
  /\ ret' = pickEnvelopeLine(args, "high")
  /\ done' = TRUE
  /\ UNCHANGED <<fn, args, cacheFile, clock, ticks, inv, sentLog, outcome, scope>>

\* line 507
EvalLowerEnvelope ==
  /\ fn = "lowerEnvelope" /\ ~done
  /\ ret' = pickEnvelopeLine(args, "low")
  /\ done' = TRUE
  /\ UNCHANGED <<fn, args, cacheFile, clock, ticks, inv, sentLog, outcome, scope>>

NextEnvelope == EvalUpperEnvelope \/ EvalLowerEnvelope

SpecEnvelope == InitEnvelope /\ [][NextEnvelope]_vars

enveloped == fn \in {"upperEnvelope", "lowerEnvelope"} /\ done /\ ret # Null

\* |slope| of a returned line in millionths of a dollar a bar
absSlopeMicro(line) ==
  IF line.slope.whole >= 0 THEN [whole |-> line.slope.whole, part |-> line.slope.part]
  ELSE IF line.slope.part = 0 THEN [whole |-> -line.slope.whole, part |-> 0]
  ELSE [whole |-> -line.slope.whole - 1, part |-> 1000000 - line.slope.part]

\* the statement of C20 for the envelope fitter alone: every line
\* pickEnvelopeLine returns has 0.02 <= |slope| <= 800
C20_EnvelopeSlopeWithinBounds ==
  enveloped =>
    LET m == absSlopeMicro(ret)
    IN /\ m.whole > 0 \/ m.part * 100 >= SLOPE_MIN_USD_PER_DAY * 1000000
       /\ m.whole < SLOPE_MAX_USD_PER_DAY
            \/ (m.whole = SLOPE_MAX_USD_PER_DAY /\ m.part = 0)

\* a falling line returned by pickEnvelopeLine
C20_EnvelopeWitness == enveloped /\ ret.slope.whole < 0

\* a pair of swings that passes every test but that of the slope, too steep
\* here, so that no line is returned
C20_EnvelopeRejects ==
  /\ fn \in {"upperEnvelope", "lowerEnvelope"} /\ done /\ ret = Null
  /\ LET side == IF fn = "upperEnvelope" THEN "high" ELSE "low"
         pv == swingsW(args, side)
     IN \E c \in envelopeCandidates_unbounded(side, args, pv) :
          tooSteep(pv[c[2]].price - pv[c[1]].price, pv[c[2]].idx - pv[c[1]].idx, PerDollar)

(***************************************************************************)
(* part_001, pickLastTwoTrendline (lines 480-506), called on the fractal   *)
(* swings of one side (lines 511-512).  Prices are in units of two cents,  *)
(* as for pickEnvelopeLine; the anchor timestamps, times1d[idx], are left  *)
(* out of the returned line.                                               *)
(***************************************************************************)
L2_MIN_GAP_BARS == 5
L2_MIN_DELTA_PCT == 2         \* 0.02, in hundredths

\* lines 487-489: gap >= L2_MIN_GAP_BARS && deltaPct >= L2_MIN_DELTA_PCT
qualifies(cand, B) ==
  /\ B.idx - cand.idx >= L2_MIN_GAP_BARS
  /\ Abs(B.price - cand.price) * 100 >= L2_MIN_DELTA_PCT * Max(cand.price, PerDollar)

\* lines 485-493: the last pivot before B that qualifies, 0 when none does
lastQualifying(pivots) ==
  LET Q == { i \in 1..(Len(pivots) - 1) : qualifies(pivots[i], pivots[Len(pivots)]) }
  IN IF Q = {} THEN 0 ELSE CHOOSE i \in Q : \A j \in Q : j <= i

\* lines 497-505
lastTwoLine(A, B) ==
  [slope |-> envelopeLine(A, B).slope, intercept |-> envelopeLine(A, B).intercept,
   anchorIdxA |-> A.idx, anchorIdxB |-> B.idx,
   anchorPriceA |-> A.price, anchorPriceB |-> B.price]

\* lines 480-506
pickLastTwoTrendline(pivots) ==
  IF Len(pivots) < 2 THEN Null
  ELSE LET B == pivots[Len(pivots)]
           q == lastQualifying(pivots)
           A == IF q # 0 THEN pivots[q] ELSE pivots[Len(pivots) - 1]     \* line 494
       IN IF A.idx = B.idx THEN Null ELSE lastTwoLine(A, B)

MaxSwingDays == 10
\* $100, $101 and $102: 100 -> 102 is a move of 2%, 102 -> 100 one of 1.96%
SwingLevels == {5000, 5050, 5100}
SwingSeries(m) == UNION { [1..n -> SwingLevels] : n \in 0..m }

InitLastTwo ==
  /\ TicksIdle
  /\ fn \in {"lastTwoHigh", "lastTwoLow"}
  /\ args \in SwingSeries(MaxSwingDays)
  /\ ret = Null /\ done = FALSE

\* line 511
EvalLastTwoHigh ==
  /\ fn = "lastTwoHigh" /\ ~done
  /\ ret' = pickLastTwoTrendline(swingsW(args, "high"))
  /\ done' = TRUE
  /\ UNCHANGED <<fn, args, cacheFile, clock, ticks, inv, sentLog, outcome, scope>>

\* line 512
EvalLastTwoLow ==
  /\ fn = "lastTwoLow" /\ ~done
  /\ ret' = pickLastTwoTrendline(swingsW(args, "low"))
  /\ done' = TRUE
  /\ UNCHANGED <<fn, args, cacheFile, clock, ticks, inv, sentLog, outcome, scope>>

NextLastTwo == EvalLastTwoHigh \/ EvalLastTwoLow

SpecLastTwo == InitLastTwo /\ [][NextLastTwo]_vars

lastTwoDone == fn \in {"lastTwoHigh", "lastTwoLow"} /\ done
lastTwoPivots == swingsW(args, IF fn = "lastTwoHigh" THEN "high" ELSE "low")

\* C21, as stated: every line pickLastTwoTrendline returns has anchors A, B
\* with B.idx - A.idx >= 5 and |B.price - A.price| / A.price >= 2%; when no
\* earlier pivot qualifies, no line is returned.
C21_LastTwoQualifies ==
  lastTwoDone =>
    IF ret = Null THEN TRUE
    ELSE /\ ret.anchorIdxB - ret.anchorIdxA >= L2_MIN_GAP_BARS
         /\ Abs(ret.anchorPriceB - ret.anchorPriceA) * 100
              >= L2_MIN_DELTA_PCT * ret.anchorPriceA

\* what the code does: the anchors are the last pivot and the last pivot
\* before it that qualifies, or, when none qualifies, the pivot just before
\* it; no line only with fewer than two pivots
C21_LastTwoOrFallback ==
  lastTwoDone =>
    LET pv == lastTwoPivots
    IN IF Len(pv) < 2 THEN ret = Null
       ELSE /\ ret # Null
            /\ ret.anchorIdxB = pv[Len(pv)].idx
            /\ \E i \in 1..(Len(pv) - 1) :
                 /\ ret.anchorIdxA = pv[i].idx /\ ret.anchorPriceA = pv[i].price
                 /\ qualifies(pv[i], pv[Len(pv)]) \/ (i = Len(pv) - 1 /\ lastQualifying(pv) = 0)
                 /\ \A j \in (i + 1)..(Len(pv) - 1) : ~qualifies(pv[j], pv[Len(pv)])

\* a line through a qualifying pair that skips a later pivot too close to B
C21_QualifyingWitness ==
  /\ lastTwoDone /\ ret # Null
  /\ ret.anchorIdxB - ret.anchorIdxA >= L2_MIN_GAP_BARS
  /\ Abs(ret.anchorPriceB - ret.anchorPriceA) * 100 >= L2_MIN_DELTA_PCT * ret.anchorPriceA
  /\ \E i \in 1..Len(lastTwoPivots) :
       lastTwoPivots[i].idx > ret.anchorIdxA /\ lastTwoPivots[i].idx < ret.anchorIdxB

(***************************************************************************)
(* The selection of the primary lines, stated over the set of surviving    *)
(* pairs.                                                                  *)
(***************************************************************************)
trendDone == fn \in {"pickPrimarySupport", "pickPrimaryResistance"} /\ done

sameSlope(pv, c, e) == ~steeper(pv, c, e) /\ ~steeper(pv, e, c)

\* C22: among the pivot pairs that satisfy the minimum gap and the
\* containment filter, pickPrimarySupport returns the pair of maximum slope
\* and pickPrimaryResistance the pair of minimum slope, a tie going to the
\* pair found first (a ascending, then b ascending); when no pair survives
\* the result is null.
C22_SteepestFirstFound ==
  trendDone =>
    LET C == candidates(sideOf(fn), args)
    IN IF C = {} THEN ret = Null
       ELSE /\ ret \in C
            /\ \A e \in C :
                 /\ IF fn = "pickPrimarySupport" THEN ~steeper(args, e, ret)
                    ELSE ~steeper(args, ret, e)
                 /\ sameSlope(args, e, ret) => ~earlier(e, ret)

\* the extreme slope is shared by the returned pair and a pair found after
\* it, while another surviving pair has a different slope
C22_Witness ==
  /\ fitted
  /\ \E e \in candidates(sideOf(fn), args) :
       e # ret /\ sameSlope(args, e, ret) /\ earlier(ret, e)
  /\ \E e \in candidates(sideOf(fn), args) : ~sameSlope(args, e, ret)

\* no pair survives the gap and the containment filter among three pivots
\* or more, and null is returned
C22_NullWitness ==
  /\ trendDone /\ ret = Null /\ Len(args) >= 3
  /\ \E a, b \in 1..Len(args) : a < b /\ args[b].idx - args[a].idx >= MIN_GAP_BARS

(***************************************************************************)
(* The regime adjustment, read off the gated plays of an invocation        *)
(* (gateInfo, alert.js line 584).                                          *)
(***************************************************************************)
\* a trend-continuation (#1, #2, #6, #9) or contrarian (#3) play against the
\* higher-timeframe trend while the 4h ADX is strong
opposesStrongTrend(p, R) == p.id \in {1, 2, 3, 6, 9} /\ R.adxStrong /\ oppToHTF(p, R)

\* C23: the regime adjustment only ever raises a gate: for every play and
\* every regime gateAdj is in {0, 1, 2, 3} and the final gate is >= the
\* play's base gate; a trend-continuation or contrarian play whose direction
\* opposes the higher-timeframe trend while the 4h ADX is strong has its
\* gate raised by 2.
C23_GateOnlyRaised ==
  \A i \in Invocations : \A k \in 1..Len(inv[i].plays) :
    LET p == inv[i].plays[k]
        g == p.gateInfo
    IN /\ g.gateAdj \in 0..3
       /\ g.baseGate = MIN_GATE(p.id)
       /\ g.finalGate >= g.baseGate
       /\ opposesStrongTrend(p, inv[i].dash.REGIME)
            => g.gateAdj = 2 /\ g.finalGate = g.baseGate + 2

\* one gate pass that raises the gate of a play against a strong trend by 2
\* and that of a mean-reversion play by 3
C23_Witness ==
  \E i \in Invocations :
    /\ inv[i].pc = "gated"
    /\ \E k \in 1..Len(inv[i].plays) :
         /\ opposesStrongTrend(inv[i].plays[k], inv[i].dash.REGIME)
         /\ inv[i].plays[k].gateInfo.finalGate = MIN_GATE(inv[i].plays[k].id) + 2
    /\ \E k \in 1..Len(inv[i].plays) : inv[i].plays[k].gateInfo.gateAdj = 3

(***************************************************************************)
(* Overlapping invocations.  The workflow starts a run every five minutes  *)
(* (alert.yml, lines 3-6) and nothing in alert.js keeps two runs apart:    *)
(* here two invocations share the cache file, and each step of main        *)
(* between two awaits is one action.                                       *)
(***************************************************************************)
InitOverlap ==
  /\ cacheFile = EmptyCache
  /\ clock = MUTE
  /\ ticks = 0
  /\ inv = [i \in {1, 2} |-> Idle]
  /\ sentLog = <<>>
  /\ outcome = "none"
  /\ scope = "overlap"
  /\ fn = "none" /\ args = <<>> /\ ret = <<>> /\ done = TRUE

SpecOverlap == InitOverlap /\ [][Next]_vars

\* some invocation that delivered ran while another one was running
someOverlap == \E x \in Deliveries : sentLog[x].overlapped

\* two invocations that both wrote the cache delivered the same key less than
\* TTL apart
repeatedWithinTTL ==
  \E a, b \in Deliveries :
    /\ sentLog[a].tick # sentLog[b].tick /\ sentLog[a].key = sentLog[b].key
    /\ sentLog[a].recorded /\ sentLog[b].recorded
    /\ Abs(sentLog[b].t - sentLog[a].t) < TTL

\* an invocation without an A-tier play wrote the cache less than MUTE after
\* the emission of another one that wrote it
emittedInsideMute ==
  \E a, b \in Deliveries :
    /\ sentLog[a].tick # sentLog[b].tick
    /\ sentLog[a].recorded /\ sentLog[b].recorded /\ ~sentLog[b].aTier
    /\ sentLog[b].t >= sentLog[a].t /\ sentLog[b].t - sentLog[a].t < MUTE

\* the cache file no longer holds the timestamp written for a delivered key
lostStamp ==
  \E a \in Deliveries :
    /\ sentLog[a].recorded
    /\ lastTsOf(cacheFile, sentLog[a].key) < sentLog[a].t

MaxRetries == 24
\* fetchRetries is parseInt(FETCH_RETRIES) || 2 (line 40): any integer but 0
\* from the environment; 0 from a caller that passes the option
RetryOptions == (-1)..MaxRetries
FetchErrors == {"HTTP", "AbortError", "other"}
Jitters == {0, 299}            \* Math.floor(Math.random() * 300)

\* x << 1 on a 32-bit integer
shl1(x) ==
  IF x >= 1073741824 THEN (x - 1073741824) * 2 - 2147483647 - 1
  ELSE IF x < -1073741824 THEN (x + 1073741824 + 1073741824) * 2
  ELSE x * 2

\* x << k, the shift count taken modulo 32
RECURSIVE shl(_, _)
shl(x, k) == IF k % 32 = 0 THEN x ELSE shl1(shl(x, (k % 32) - 1))

\* line 78 without Math.min
backoff_uncapped(attempt, jitter) == shl(500, attempt) + jitter

\* line 78
backoff(attempt, jitter) == Min(30000, shl(500, attempt) + jitter)

InitRetry ==
  /\ TicksIdle
  /\ fn = "safeJson"
  /\ args \in [retries : RetryOptions]
  /\ ret = [pc |-> "loop", attempt |-> 0, made |-> 0, oks |-> 0, err |-> "none",
            thrown |-> "none", wait |-> 0]
  /\ done = FALSE

\* lines 71-73: the fetch gives an ok response and its JSON is returned
AttemptOk ==
  /\ fn = "safeJson" /\ ret.pc = "loop" /\ ret.attempt <= args.retries
  /\ ret' = [ret EXCEPT !.pc = "returned", !.made = @ + 1, !.oks = @ + 1]
  /\ done' = TRUE
  /\ UNCHANGED <<fn, args, cacheFile, clock, ticks, inv, sentLog, outcome, scope>>

\* lines 71-79: the attempt fails; the last one rethrows, the others start
\* the backoff timer
AttemptFail ==
  /\ fn = "safeJson" /\ ret.pc = "loop" /\ ret.attempt <= args.retries
  /\ \E e \in FetchErrors, j \in Jitters :
       IF ret.attempt = args.retries
       THEN /\ ret' = [ret EXCEPT !.pc = "thrown", !.made = @ + 1, !.err = e, !.thrown = e]
            /\ done' = TRUE
       ELSE /\ ret' = [ret EXCEPT !.pc = "wait", !.made = @ + 1, !.err = e,
                                  !.wait = backoff(ret.attempt, j)]
            /\ done' = FALSE
  /\ UNCHANGED <<fn, args, cacheFile, clock, ticks, inv, sentLog, outcome, scope>>

\* line 79 resolves, line 67: attempt++
Backoff ==
  /\ fn = "safeJson" /\ ret.pc = "wait"
  /\ ret' = [ret EXCEPT !.pc = "loop", !.attempt = @ + 1]
  /\ UNCHANGED <<fn, args, done, cacheFile, clock, ticks, inv, sentLog, outcome, scope>>

\* line 67 is false: the function ends without a return statement
LoopExit ==
  /\ fn = "safeJson" /\ ret.pc = "loop" /\ ret.attempt > args.retries
  /\ ret' = [ret EXCEPT !.pc = "returned"]
  /\ done' = TRUE
  /\ UNCHANGED <<fn, args, cacheFile, clock, ticks, inv, sentLog, outcome, scope>>

NextRetry == AttemptOk \/ AttemptFail \/ Backoff \/ LoopExit

\* every await of the call settles: the fetch by the abort timer, the
\* backoff by its own timer
SpecRetry == InitRetry /\ [][NextRetry]_vars /\ WF_vars(NextRetry)

retrySettled == ret.pc \in {"returned", "thrown"}

retrySafe ==
  /\ ret.made <= Max(0, args.retries + 1)
  /\ ret.oks <= 1
  /\ ret.oks = 1 => ret.pc = "returned"                  \* nothing follows a success
  /\ ret.pc = "thrown" =>
       ret.oks = 0 /\ ret.made = args.retries + 1 /\ ret.thrown = ret.err
  /\ ret.wait <= 30000

\* C25: for any sequence of fetch outcomes safeJson makes at most retries+1
\* attempts, returns the first successful JSON response without any further
\* attempt, rethrows the failure of the final attempt, waits between failed
\* attempts a backoff that never exceeds 30 s, and always terminates.
C25_BoundedRetry == [](fn = "safeJson" => retrySafe) /\ <>(fn = "safeJson" => retrySettled)

\* a response returned by the last allowed attempt, after failures whose
\* backoff reached the cap of 30 s
C25_Witness ==
  /\ fn = "safeJson" /\ ret.pc = "returned" /\ ret.oks = 1
  /\ ret.made = args.retries + 1 /\ ret.wait = 30000

\* the shift of line 78 wraps to a negative delay from attempt 23 on
C25_WrapWitness == fn = "safeJson" /\ ret.pc = "wait" /\ ret.wait < 0

(***************************************************************************)
(* A delivery that fails part-way through a batch (alert.js, lines 667 and *)
(* 680-689).                                                               *)
(***************************************************************************)
\* a delivery made by a non-debug invocation that has ended without writing
\* the cache: tg threw on a later play of its batch
deliveredThenFailed(a) ==
  /\ ~sentLog[a].recorded /\ ~sentLog[a].dbg
  /\ \A i \in Invocations : inv[i].tick # sentLog[a].tick

\* the step on which tg throws
sendFails(i) == inv[i].pc = "send" /\ inv'[i].pc = "idle" /\ outcome' = "sendError"

\* C26: if delivering any play of a tick's batch fails, that tick writes
\* nothing to the cache (the global timestamp and every per-key timestamp
\* are unchanged), also for the plays of the batch delivered before the
\* failure, so that those plays are not de-duplicated on the next tick.
C26_FailedBatchWritesNothing ==
  /\ [][\A i \in Invocations : sendFails(i) => cacheFile' = cacheFile]_vars
  /\ [](\A a \in Deliveries :
          deliveredThenFailed(a) =>
            /\ cacheFile.ts # sentLog[a].t
            /\ lastTsOf(cacheFile, sentLog[a].key) # sentLog[a].t
            /\ \A i \in Invocations :
                 (inv[i].pc = "send" /\ inv[i].tick = sentLog[a].tick + 1)
                   => \A k \in 1..Len(inv[i].plays) :
                        (~inv[i].plays[k].belowGate
                           /\ playKey(inv[i].plays[k], inv[i].dash) = sentLog[a].key)
                          => \E f \in 1..Len(inv[i].fresh) :
                               inv[i].fresh[f] = inv[i].plays[k])

\* the tick after a failed batch delivers again, inside the TTL, the key the
\* failed tick had delivered before tg threw
C26_Witness ==
  \E a \in Deliveries : \E i \in Invocations :
    /\ deliveredThenFailed(a)
    /\ inv[i].pc = "send" /\ ~inv[i].isDbg /\ inv[i].tick = sentLog[a].tick + 1
    /\ inv[i].nowTs - sentLog[a].t < TTL
    /\ \E k \in 1..Len(inv[i].sent) : playKey(inv[i].sent[k], inv[i].dash) = sentLog[a].key

(***************************************************************************)
(* Which rules can fire on what the builder produces.  The builder writes  *)
(* dataF.avwapCycle in one place (edge-data.js, line 908) and in the other *)
(* version of the block not at all (lines 360-366); the anchor time is a   *)
(* local of lines 895-899 and no line writes dataF.avwapAnchorTs, so rule  *)
(* #2 reads $(undefined || 0) = 0 at alert.js line 315.                    *)
(***************************************************************************)
builderEmits(d) == d.avwapAnchorDay = 0

\* evaluateSignals returns and its plays hold one of rule k
firesOn(k, d) ==
  LET r == evaluateSignals(d)
  IN ~r.threw /\ playsOf(r, k) # {}

\* some snapshot of the builder, at some wall-clock time, makes rule k fire
liveOn(k) ==
  \E hh \in {0, 99, 100}, av \in { a \in AvwapKinds : a[2] = 0 }, fz \in {NaN, 250, -250},
     lq \in LiqKinds, a15 \in {0, 40, 160}, oi \in OiKinds, tr \in TrendKinds,
     tm \in TimeKinds, ses \in SessionKinds, roc \in {-50, 0, 50}, band \in BandKinds,
     failed \in FailedKinds :
    firesOn(k, snapshotOf(hh, av, fz, lq, a15, oi, tr, tm, ses, roc, band, failed))

\* C27, as stated: every one of the nine catalogue rules is live, that is,
\* for each rule some snapshot the builder can produce and some wall-clock
\* time make evaluateSignals emit a play of that rule; in particular rule #2
\* (AVWAP Reclaim).
C27_EveryRuleLive ==
  (evaluated /\ builderEmits(args)) => \A k \in Rules : liveOn(k)

\* what the code does: on a snapshot of the builder rule #2 never emits a
\* play, and whenever the call returns its check is SKIPPED with the reason
\* "anchor too old"
C27_AvwapReclaimNeverFires ==
  (evaluated /\ builderEmits(args)) =>
    /\ ~firesOn(2, args)
    /\ ~ret.threw =>
         \A j \in checksOf(ret, 2) :
           /\ ret.checks[j].result = "SKIPPED"
           /\ \E n \in 1..Len(ret.checks[j].reasons) :
                ret.checks[j].reasons[n] = "anchor too old"

\* one snapshot of the builder, at 08:20 UTC, on which the other eight
\* rules all emit a play, with price above the cycle AVWAP by more than 0.1 %
C27_OtherRulesWitness ==
  /\ evaluated /\ builderEmits(args)
  /\ args.avwapCycle = 99 /\ args.price = 100
  /\ ~ret.threw
  /\ { ret.plays[j].id : j \in 1..Len(ret.plays) } = Rules \ {2}

(***************************************************************************)
(* The geometry of a play: where stop and tp1 lie relative to entry[0],    *)
(* the price buildMsg sizes the position from (alert.js, lines 507-512).   *)
(***************************************************************************)
\* riskD = Math.abs(entry0 - p.stop), line 509
riskD(p) == Abs(p.entry[1] - p.stop)

wellFormed(p) ==
  /\ p.dir = "LONG" => p.stop < p.entry[1] /\ p.entry[1] < p.tp1
  /\ p.dir = "SHORT" => p.tp1 < p.entry[1] /\ p.entry[1] < p.stop

C28_PlayGeometryButZeroAtr ==
  (evaluated /\ ~ret.threw /\ args.price > 0) =>
    \A j \in 1..Len(ret.plays) :
      IF ret.plays[j].id = 2 /\ args.atr4h = 0
      THEN /\ ret.plays[j].stop = ret.plays[j].entry[1]
           /\ riskD(ret.plays[j]) = 0
           /\ ret.plays[j].entry[1] < ret.plays[j].tp1
      ELSE wellFormed(ret.plays[j])

\* rule #2 fires on a snapshot with a 4h ATR of 0, next to a SHORT play
C28_ZeroRiskWitness ==
  /\ evaluated /\ ~ret.threw /\ args.atr4h = 0
  /\ playsOf(ret, 2) # {}
  /\ \E j \in 1..Len(ret.plays) : ret.plays[j].dir = "SHORT"

(***************************************************************************)
(* The timestamps of the cache file, written by lines 669-676 only.        *)
(***************************************************************************)
stamps(cache) == { cache.plays[k] : k \in DOMAIN cache.plays }

\* the global timestamp bounds every per-key timestamp and is one of them
tsIsLargest(cache) ==
  /\ \A k \in DOMAIN cache.plays : cache.plays[k] <= cache.ts
  /\ cache.plays # <<>> => cache.ts \in stamps(cache)

\* every key of the old cache is in the new one with a timestamp no smaller
onlyAddedOrRaised(old, new) ==
  \A k \in DOMAIN old.plays :
    /\ k \in DOMAIN new.plays
    /\ old.plays[k] <= new.plays[k]

\* C29: over sequential ticks from an empty cache with a clock that never
\* goes back, cache.ts is at least every per-key timestamp and equals the
\* largest of them, and a per-key entry is only ever added or raised, never
\* removed or lowered.
C29_CacheTimestamps ==
  /\ [](scope = "lifecycle" => tsIsLargest(cacheFile))
  /\ [][scope = "lifecycle" => onlyAddedOrRaised(cacheFile, cacheFile')]_vars

\* two keys were recorded by one tick and one of them again by a later
\* tick: that key's timestamp was raised to the global one, the other key
\* keeps the older timestamp
C29_Witness ==
  /\ scope = "lifecycle"
  /\ \E a, b, c \in 1..Len(sentLog) :
       /\ sentLog[a].recorded /\ sentLog[b].recorded /\ sentLog[c].recorded
       /\ sentLog[a].tick = sentLog[b].tick /\ sentLog[a].key # sentLog[b].key
       /\ sentLog[c].key = sentLog[a].key /\ sentLog[c].t > sentLog[a].t
       /\ lastTsOf(cacheFile, sentLog[a].key) = sentLog[c].t
       /\ cacheFile.ts = sentLog[c].t
       /\ lastTsOf(cacheFile, sentLog[b].key) = sentLog[b].t
       /\ sentLog[b].t < cacheFile.ts

(***************************************************************************)
(* Debug runs (DEBUG === "true", line 38) and the de-dup state.            *)
(***************************************************************************)
debugRunning == \E i \in Invocations : inv[i].pc # "idle" /\ inv[i].isDbg

\* the plays of fresh are the sendable plays whose key the cache file holds
\* no timestamp for that is less than TTL old
ttlApplied(i) ==
  LET sendable == SelectSeq(inv[i].plays, LAMBDA p : ~p.belowGate)
      young(p) == LET key == playKey(p, inv[i].dash)
                  IN key \in DOMAIN cacheFile.plays
                       /\ inv[i].nowTs - cacheFile.plays[key] < TTL
  IN inv[i].fresh = SelectSeq(sendable, LAMBDA p : ~young(p))

\* C30: a debug run is never ended by the global mute and never writes the
\* cache (the global and the per-key timestamps are the same after each of
\* its steps, also when it delivers plays), while the plays it delivers are
\* the sendable plays that pass the per-key TTL filter against the cache.
C30_DebugLeavesCache ==
  /\ [][debugRunning => (cacheFile' = cacheFile /\ outcome' # "muted")]_vars
  /\ [](scope = "lifecycle" =>
          \A i \in Invocations :
            (inv[i].isDbg /\ inv[i].pc = "send") => ttlApplied(i))

\* a debug run inside the mute window with no A-tier play goes on to send,
\* with one of its two sendable plays removed by the TTL filter
C30_Witness ==
  /\ scope = "lifecycle"
  /\ \E i \in Invocations :
       /\ inv[i].isDbg /\ inv[i].pc = "send"
       /\ cacheFile.ts > 0 /\ inv[i].nowTs - cacheFile.ts < MUTE
       /\ ~hasATierOf(sendableOf(inv[i].plays))
       /\ Len(sendableOf(inv[i].plays)) = 2
       /\ Len(inv[i].fresh) = 1

\* a debug run has delivered a play and finished: the cache file still holds
\* the timestamps of the earlier non-debug run and no key of the debug run
C30_SentWitness ==
  /\ scope = "lifecycle" /\ outcome = "sent" /\ ~debugRunning
  /\ Len(sentLog) >= 2
  /\ sentLog[Len(sentLog)].dbg /\ ~sentLog[Len(sentLog)].recorded
  /\ sentLog[Len(sentLog)].key \notin DOMAIN cacheFile.plays
  /\ sentLog[1].recorded /\ cacheFile.ts = sentLog[1].t
  /\ sentLog[Len(sentLog)].t > cacheFile.ts

====
